---- MODULE Spec2Model ----
(***************************************************************************)
(* Model of the contour tracing and region filling of                      *)
(* src/discreteheatmap.py (main with fill == 2, close_paths,               *)
(* calc_area_hierarchy, test_clockwise).                                   *)
(*                                                                         *)
(* The sample mesh is the one np.meshgrid returns: xCoords[i,j] depends on *)
(* the column j only and yCoords[i,j] on the row i only, so the model      *)
(* keeps one row of X values and one column of Y values.  Indices are      *)
(* 1-based here (row i of the source is row i+1 of the model).  Adjacent   *)
(* samples are 6 apart, so the half steps (3) and the mean of three or     *)
(* four side midpoints are integers and every comparison is exact.         *)
(*                                                                         *)
(* Python iterates a set in an order the language does not fix; every      *)
(* such iteration is a nondeterministic choice of order here.              *)
(***************************************************************************)
EXTENDS Integers, Sequences, FiniteSets, TLC

\* Bounds of the model.
MaxRows == 2        \* most rows of an enumerated grid
MaxCols == 3        \* most columns of an enumerated grid
NumCats == 2        \* number of distinct category values
MaxWalk == 20       \* most iterations of one frame walk before it is given up as endless
MaxLevels == 2      \* most discretization levels in a call with levels
MaxZ == 2           \* largest raw Z value (and largest level) in a call with levels

VARIABLES
    levels,             \* the discretization levels main was called with (<<>>: none)
    xCoords,            \* row of X coordinates (xCoords[0, :] of the source)
    yCoords,            \* column of Y coordinates (yCoords[:, 0] of the source)
    zValues,            \* zValues[i][j], the category of the sample in row i, column j
    pc,                 \* position in main: "levels", "start", "stitch", "fill", "close", "walk", "emit", "done", "failed", "hung"
    boundaryCoords,     \* cells still to be visited by the loop of line 171
    paths,              \* start point -> list of vertices
    startsToEnds,       \* start point -> end point
    endsToStarts,       \* end point -> start point
    pathsStartsToRegionZValues,  \* the dict of line 320 as a list of <<start, z>> in insertion order
    openStartingPoints, \* open starts not yet closed (close_paths)
    newPaths,           \* close_paths: start -> closed vertex list
    pathStartToZValue,  \* close_paths: list of <<start, z>> in insertion order
    removeInternalPaths,\* result of calc_area_hierarchy
    toEmit,             \* index in pathsStartsToRegionZValues of the next region to emit
    emitted             \* patches handed to axes.add_patch by the loop of line 348

vars == <<levels, xCoords, yCoords, zValues, pc, boundaryCoords, paths, startsToEnds, endsToStarts,
          pathsStartsToRegionZValues, openStartingPoints, newPaths, pathStartToZValue,
          removeInternalPaths, toEmit, emitted>>

----------------------------------------------------------------------------
\* Generic helpers (Python dict and list operations).

Abs(n) == IF n < 0 THEN -n ELSE n

MinOf(s) == CHOOSE a \in {s[n] : n \in DOMAIN s} : \A b \in {s[n] : n \in DOMAIN s} : a <= b

MaxOf(s) == CHOOSE a \in {s[n] : n \in DOMAIN s} : \A b \in {s[n] : n \in DOMAIN s} : a >= b

\* d[k] = v
Put(d, k, v) == [x \in (DOMAIN d) \cup {k} |-> IF x = k THEN v ELSE d[x]]

\* del d[k]
Del(d, k) == [x \in (DOMAIN d) \ {k} |-> d[x]]

EmptyDict == [x \in {} |-> 0]

\* l[::-1]
Reverse(l) == [n \in 1..Len(l) |-> l[Len(l) + 1 - n]]

\* Every order in which the elements of the set S can be iterated.
RECURSIVE Orders(_)
Orders(S) == IF S = {} THEN {<<>>} ELSE UNION {{<<x>> \o o : o \in Orders(S \ {x})} : x \in S}

\* The keys of an insertion ordered dict kept as a list of <<key, value>>.
Keys(l) == [n \in 1..Len(l) |-> l[n][1]]

KeySet(l) == {l[n][1] : n \in 1..Len(l)}

ValueOf(l, k) == l[CHOOSE n \in 1..Len(l) : l[n][1] = k][2]

----------------------------------------------------------------------------
\* Statistics of the input matrices (lines 117-125 and 443-449).

numberOfRows == Len(zValues)

numberOfCols == Len(zValues[1])

xMin == MinOf(xCoords)

xMax == MaxOf(xCoords)

yMin == MinOf(yCoords)

yMax == MaxOf(yCoords)

deltaX == Abs(xCoords[2] - xCoords[1])

deltaY == Abs(yCoords[2] - yCoords[1])

halfDeltaX == deltaX \div 2

halfDeltaY == deltaY \div 2

----------------------------------------------------------------------------
\* Boundary entry and exit points of every square (lines 129-162).

\* Variant that pads with the first column instead of the last.
zValuesExtendedColumnFirst ==
    [i \in 1..numberOfRows |->
        [j \in 1..(numberOfCols + 1) |-> IF j <= numberOfCols THEN zValues[i][j] ELSE zValues[i][1]]]

\* np.concatenate([zValues, zValues[:, -1:]], 1) of line 135: the last column twice.
zValuesExtendedColumn ==
    [i \in 1..numberOfRows |->
        [j \in 1..(numberOfCols + 1) |->
            IF j <= numberOfCols THEN zValues[i][j] ELSE zValues[i][numberOfCols]]]

\* np.concatenate([zValues, zValues[-1:, :]], 0) of line 136: the bottom row twice.
zValuesExtendedRow ==
    [i \in 1..(numberOfRows + 1) |->
        IF i <= numberOfRows THEN zValues[i] ELSE zValues[numberOfRows]]

\* Line 137: rowsNotEqual[i, j], every entry of the padded matrix unequal to the
\* entry on its right.
rowsNotEqual(i, j) == zValuesExtendedColumn[i][j] # zValuesExtendedColumn[i][j + 1]

\* Line 138: columnsNotEqual[i, j], every entry of the padded matrix unequal to the
\* entry below it.
columnsNotEqual(i, j) == zValuesExtendedRow[i][j] # zValuesExtendedRow[i + 1][j]

\* The four side midpoints a, b, c, d of the square whose smallest corner is (i, j).
SquareMidpoints(i, j) ==
    << <<xCoords[j], yCoords[i] + halfDeltaY>>,
       <<xCoords[j] + halfDeltaX, yCoords[i + 1]>>,
       <<xCoords[j + 1], yCoords[i] + halfDeltaY>>,
       <<xCoords[j] + halfDeltaX, yCoords[i]>> >>

\* Variant that reads rowsNotEqual[i, j] where line 161 reads rowsNotEqual[i+1, j].
SquareUnequalSameRow(i, j) ==
    <<columnsNotEqual(i, j), rowsNotEqual(i, j), columnsNotEqual(i, j + 1), rowsNotEqual(i, j)>>

\* The boolean row vector that selects the midpoints of the sides with unequal corners.
SquareUnequal(i, j) ==
    <<columnsNotEqual(i, j), rowsNotEqual(i + 1, j), columnsNotEqual(i, j + 1), rowsNotEqual(i, j)>>

\* pts[mask] of numpy: the selected entries in their order.
MaskSelect(pts, mask) ==
    LET sel[n \in 0..Len(pts)] ==
            IF n = 0 THEN <<>>
            ELSE IF mask[n] THEN Append(sel[n - 1], pts[n]) ELSE sel[n - 1]
    IN sel[Len(pts)]

SquareTuple(i, j) == MaskSelect(SquareMidpoints(i, j), SquareUnequal(i, j))

InitialBoundaryCoords ==
    {SquareTuple(i, j) : i \in 1..(numberOfRows - 1), j \in 1..(numberOfCols - 1)} \ {<<>>}

----------------------------------------------------------------------------
\* Stitching of the segments of one square (body of the loop of line 171).

\* zip(i[:-1], i[1:]) after i += (i[0],): every point paired with its successor, cyclically.
\* Variant without the wrap-around of line 174: the segment from the last midpoint back
\* to the first is lost.
SquareSegmentsNoWrap(sq) == {<<sq[n], sq[n + 1]>> : n \in 1..(Len(sq) - 1)}

SquareSegments(sq) == {<<sq[n], sq[(n % Len(sq)) + 1]>> : n \in 1..Len(sq)}

\* middleOfSquare as a list: empty when the middle is not needed (lines 199-204).
MiddleOfSquare(sq) ==
    LET n == Len(sq)
        sumX[m \in 0..n] == IF m = 0 THEN 0 ELSE sumX[m - 1] + sq[m][1]
        sumY[m \in 0..n] == IF m = 0 THEN 0 ELSE sumY[m - 1] + sq[m][2]
    IN IF n > 2 THEN << <<sumX[n] \div n, sumY[n] \div n>> >> ELSE <<>>

\* The three dicts as one record; ok turns FALSE when a lookup or del raises KeyError.
Maps(p, s, e, ok) == [paths |-> p, startsToEnds |-> s, endsToStarts |-> e, ok |-> ok]

\* Variant in which a failed lookup is swallowed and the segment is skipped.
RaisedSwallowed(m) == m

Raised(m) == [m EXCEPT !.ok = FALSE]

\* Variant that joins the two paths in the dicts but does not copy the vertices of the
\* path starting at k.
FillGapDropsTail(m, seg, mid) ==
    LET j == seg[1]
        k == seg[2]
    IN IF ~m.ok THEN m
       ELSE IF k \notin DOMAIN m.startsToEnds \/ j \notin DOMAIN m.endsToStarts THEN Raised(m)
       ELSE
        LET endOfBoundaryStartingAtK == m.startsToEnds[k]
            s1 == Del(m.startsToEnds, k)
            startOfBoundaryEndingAtJ == m.endsToStarts[j]
            e1 == Del(m.endsToStarts, j)
        IN IF startOfBoundaryEndingAtJ \notin DOMAIN m.paths THEN Raised(m)
           ELSE
            LET p1 == [m.paths EXCEPT ![startOfBoundaryEndingAtJ] = @ \o mid]
            IN IF endOfBoundaryStartingAtK # j
               THEN IF k \notin DOMAIN p1 THEN Raised(m)
                    ELSE Maps(Del([p1 EXCEPT ![startOfBoundaryEndingAtJ] = Append(@, k)], k),
                              Put(s1, startOfBoundaryEndingAtJ, endOfBoundaryStartingAtK),
                              Put(e1, endOfBoundaryStartingAtK, startOfBoundaryEndingAtJ),
                              TRUE)
               ELSE Maps([p1 EXCEPT ![startOfBoundaryEndingAtJ] = Append(@, k)],
                         Put(s1, k, k), e1, TRUE)

\* One segment of fillGaps (lines 205-228 and 254-276).
FillGap(m, seg, mid) ==
    LET j == seg[1]
        k == seg[2]
    IN IF ~m.ok THEN m
       ELSE IF k \notin DOMAIN m.startsToEnds \/ j \notin DOMAIN m.endsToStarts THEN Raised(m)
       ELSE
        LET endOfBoundaryStartingAtK == m.startsToEnds[k]
            s1 == Del(m.startsToEnds, k)
            startOfBoundaryEndingAtJ == m.endsToStarts[j]
            e1 == Del(m.endsToStarts, j)
        IN IF startOfBoundaryEndingAtJ \notin DOMAIN m.paths THEN Raised(m)
           ELSE
            LET p1 == [m.paths EXCEPT ![startOfBoundaryEndingAtJ] = @ \o mid]
            IN IF endOfBoundaryStartingAtK # j
               THEN IF k \notin DOMAIN p1 THEN Raised(m)
                    ELSE Maps(Del([p1 EXCEPT ![startOfBoundaryEndingAtJ] = @ \o p1[k]], k),
                              Put(s1, startOfBoundaryEndingAtJ, endOfBoundaryStartingAtK),
                              Put(e1, endOfBoundaryStartingAtK, startOfBoundaryEndingAtJ),
                              TRUE)
               ELSE Maps([p1 EXCEPT ![startOfBoundaryEndingAtJ] = Append(@, k)],
                         Put(s1, k, k), e1, TRUE)

\* Variant that leaves the extended path under its old start k.
ExtendStartOldKey(m, seg, mid) ==
    LET j == seg[1]
        k == seg[2]
    IN IF ~m.ok THEN m
       ELSE IF k \notin DOMAIN m.startsToEnds \/ k \notin DOMAIN m.paths THEN Raised(m)
       ELSE
        LET endOfBoundaryStartingAtK == m.startsToEnds[k]
            s1 == Put(Del(m.startsToEnds, k), j, endOfBoundaryStartingAtK)
            e1 == Put(m.endsToStarts, endOfBoundaryStartingAtK, j)
        IN Maps(Put(m.paths, k, <<j>> \o mid \o m.paths[k]), s1, e1, TRUE)

\* Variant that leaves endsToStarts naming the old start k of the path.
ExtendStartStaleEnd(m, seg, mid) ==
    LET j == seg[1]
        k == seg[2]
    IN IF ~m.ok THEN m
       ELSE IF k \notin DOMAIN m.startsToEnds \/ k \notin DOMAIN m.paths THEN Raised(m)
       ELSE
        LET endOfBoundaryStartingAtK == m.startsToEnds[k]
            s1 == Put(Del(m.startsToEnds, k), j, endOfBoundaryStartingAtK)
        IN Maps(Del(Put(m.paths, j, <<j>> \o mid \o m.paths[k]), k), s1, m.endsToStarts, TRUE)

\* One segment of extendStarts (lines 229-238 and 277-286).
ExtendStart(m, seg, mid) ==
    LET j == seg[1]
        k == seg[2]
    IN IF ~m.ok THEN m
       ELSE IF k \notin DOMAIN m.startsToEnds \/ k \notin DOMAIN m.paths THEN Raised(m)
       ELSE
        LET endOfBoundaryStartingAtK == m.startsToEnds[k]
            s1 == Put(Del(m.startsToEnds, k), j, endOfBoundaryStartingAtK)
            e1 == Put(m.endsToStarts, endOfBoundaryStartingAtK, j)
        IN Maps(Del(Put(m.paths, j, <<j>> \o mid \o m.paths[k]), k), s1, e1, TRUE)

\* Variant that always takes the branch without the middle of the square (lines 287-295).
ExtendEndNoMiddle(m, seg, mid) ==
    LET j == seg[1]
        k == seg[2]
    IN IF ~m.ok THEN m
       ELSE IF j \notin DOMAIN m.endsToStarts THEN Raised(m)
       ELSE
        LET startOfBoundaryEndingAtJ == m.endsToStarts[j]
            e1 == Put(Del(m.endsToStarts, j), k, startOfBoundaryEndingAtJ)
            s1 == Put(m.startsToEnds, startOfBoundaryEndingAtJ, k)
        IN IF startOfBoundaryEndingAtJ \notin DOMAIN m.paths THEN Raised(m)
           ELSE Maps([m.paths EXCEPT ![startOfBoundaryEndingAtJ] = Append(@, k)], s1, e1, TRUE)

\* One segment of extendEnds (lines 239-247 and 287-295).
ExtendEnd(m, seg, mid) ==
    LET j == seg[1]
        k == seg[2]
    IN IF ~m.ok THEN m
       ELSE IF j \notin DOMAIN m.endsToStarts THEN Raised(m)
       ELSE
        LET startOfBoundaryEndingAtJ == m.endsToStarts[j]
            e1 == Put(Del(m.endsToStarts, j), k, startOfBoundaryEndingAtJ)
            s1 == Put(m.startsToEnds, startOfBoundaryEndingAtJ, k)
        IN IF startOfBoundaryEndingAtJ \notin DOMAIN m.paths THEN Raised(m)
           ELSE Maps([m.paths EXCEPT ![startOfBoundaryEndingAtJ] = @ \o mid \o <<k>>], s1, e1, TRUE)

\* Variant that always takes the branch without the middle of the square (lines 296-300).
NewAloneNoMiddle(m, seg, mid) ==
    LET j == seg[1]
        k == seg[2]
    IN IF ~m.ok THEN m
       ELSE Maps(Put(m.paths, j, <<j, k>>),
                 Put(m.startsToEnds, j, k),
                 Put(m.endsToStarts, k, j), TRUE)

\* One segment of newAlones (lines 248-252 and 296-300).
NewAlone(m, seg, mid) ==
    LET j == seg[1]
        k == seg[2]
    IN IF ~m.ok THEN m
       ELSE Maps(Put(m.paths, j, <<j>> \o mid \o <<k>>),
                 Put(m.startsToEnds, j, k),
                 Put(m.endsToStarts, k, j), TRUE)

\* The classification of lines 181-197, made against the dicts as they are before the square is applied.
FillGaps(m, sq) ==
    {seg \in SquareSegments(sq) : seg[1] \in DOMAIN m.endsToStarts /\ seg[2] \in DOMAIN m.startsToEnds}

ExtendStarts(m, sq) ==
    {seg \in SquareSegments(sq) : seg[1] \notin DOMAIN m.endsToStarts /\ seg[2] \in DOMAIN m.startsToEnds}

ExtendEnds(m, sq) ==
    {seg \in SquareSegments(sq) : seg[1] \in DOMAIN m.endsToStarts /\ seg[2] \notin DOMAIN m.startsToEnds}

NewAlones(m, sq) ==
    {seg \in SquareSegments(sq) : seg[1] \notin DOMAIN m.endsToStarts /\ seg[2] \notin DOMAIN m.startsToEnds}

\* Variant that leaves out the loop over fillGaps.
ApplySquareNoFillGaps(m0, sq, oFill, oStart, oEnd, oNew) ==
    LET mid == MiddleOfSquare(sq)
        f2[n \in 0..Len(oStart)] == IF n = 0 THEN m0 ELSE ExtendStart(f2[n - 1], oStart[n], mid)
        f3[n \in 0..Len(oEnd)] == IF n = 0 THEN f2[Len(oStart)] ELSE ExtendEnd(f3[n - 1], oEnd[n], mid)
        f4[n \in 0..Len(oNew)] == IF n = 0 THEN f3[Len(oEnd)] ELSE NewAlone(f4[n - 1], oNew[n], mid)
    IN f4[Len(oNew)]

\* Variant that leaves out the loop over extendStarts.
ApplySquareNoExtendStarts(m0, sq, oFill, oStart, oEnd, oNew) ==
    LET mid == MiddleOfSquare(sq)
        f1[n \in 0..Len(oFill)] == IF n = 0 THEN m0 ELSE FillGap(f1[n - 1], oFill[n], mid)
        f3[n \in 0..Len(oEnd)] == IF n = 0 THEN f1[Len(oFill)] ELSE ExtendEnd(f3[n - 1], oEnd[n], mid)
        f4[n \in 0..Len(oNew)] == IF n = 0 THEN f3[Len(oEnd)] ELSE NewAlone(f4[n - 1], oNew[n], mid)
    IN f4[Len(oNew)]

\* The four for loops of lines 205-252 (253-300), each in the iteration order given.
ApplySquare(m0, sq, oFill, oStart, oEnd, oNew) ==
    LET mid == MiddleOfSquare(sq)
        f1[n \in 0..Len(oFill)] == IF n = 0 THEN m0 ELSE FillGap(f1[n - 1], oFill[n], mid)
        f2[n \in 0..Len(oStart)] == IF n = 0 THEN f1[Len(oFill)] ELSE ExtendStart(f2[n - 1], oStart[n], mid)
        f3[n \in 0..Len(oEnd)] == IF n = 0 THEN f2[Len(oStart)] ELSE ExtendEnd(f3[n - 1], oEnd[n], mid)
        f4[n \in 0..Len(oNew)] == IF n = 0 THEN f3[Len(oEnd)] ELSE NewAlone(f4[n - 1], oNew[n], mid)
    IN f4[Len(oNew)]

----------------------------------------------------------------------------
\* matplotlib.path.Path as the source uses it.

Last(l) == l[Len(l)]

\* Path.contains_point with radius 0: the crossings test of the plotting library
\* (a ray towards +X, vertex above-or-level flags), the path closed implicitly.
PointInPath(verts, pt) ==
    LET n == Len(verts)
        Crosses(k) ==
            LET v0 == verts[k]
                v1 == verts[(k % n) + 1]
                yflag0 == v0[2] >= pt[2]
                yflag1 == v1[2] >= pt[2]
            IN /\ yflag0 # yflag1
               /\ (((v1[2] - pt[2]) * (v0[1] - v1[1]) >= (v1[1] - pt[1]) * (v0[2] - v1[2])) = yflag1)
    IN Cardinality({k \in 1..n : Crosses(k)}) % 2 = 1

\* pt lies on a segment of the implicitly closed path.
OnPath(verts, pt) ==
    \E k \in 1..Len(verts) :
        LET a == verts[k]
            b == verts[(k % Len(verts)) + 1]
        IN /\ (b[1] - a[1]) * (pt[2] - a[2]) = (b[2] - a[2]) * (pt[1] - a[1])
           /\ (pt[1] - a[1]) * (pt[1] - b[1]) <= 0
           /\ (pt[2] - a[2]) * (pt[2] - b[2]) <= 0

\* Path.contains_point(pointToCheck, radius=min(halfDeltaX, halfDeltaY) / 2) of line 677.
\* The margin is a quarter of a half step; the point tested is a sample, and a sample
\* is either on a segment of the path or further from it than the margin, so the
\* inflated path contains the samples inside the path and those on it.
ContainsPointInflated(verts, pt) == OnPath(verts, pt) \/ PointInPath(verts, pt)

\* Path.contains_path: every vertex of the other path is inside this one (line 389).
\* Variant that asks for one vertex inside instead of all of them.
ContainsPathAnyVertex(verts, other) ==
    /\ Len(verts) >= 3
    /\ \E k \in 1..Len(other) : PointInPath(verts, other[k])

ContainsPath(verts, other) ==
    /\ Len(verts) >= 3
    /\ \A k \in 1..Len(other) : PointInPath(verts, other[k])

----------------------------------------------------------------------------
\* test_clockwise (lines 569-687).

\* zValues[indexX, indexY] of lines 685-687 and 558-560; ok is FALSE when
\* np.where finds no index (IndexError).
ZValueAt(pt) ==
    LET cols == {j \in 1..Len(xCoords) : xCoords[j] = pt[1]}
        rows == {i \in 1..Len(yCoords) : yCoords[i] = pt[2]}
    IN IF cols = {} \/ rows = {}
       THEN [ok |-> FALSE, z |-> "none"]
       ELSE LET indexY == CHOOSE j \in cols : \A j2 \in cols : j <= j2
                indexX == CHOOSE i \in rows : \A i2 \in rows : i <= i2
            IN IF indexX > numberOfRows \/ indexY > numberOfCols
               THEN [ok |-> FALSE, z |-> "none"]
               ELSE [ok |-> TRUE, z |-> zValues[indexX][indexY]]

\* The probe point without the two cases for a first segment that starts on a line of
\* the Y grid (lines 642-659 left out).
ProbePointNoYGrid(pathVertices) ==
    LET firstSegmentStartX == pathVertices[1][1]
        firstSegmentStartY == pathVertices[1][2]
        firstSegmentEndX == pathVertices[2][1]
        firstSegmentEndY == pathVertices[2][2]
        verticalLine == firstSegmentStartX = firstSegmentEndX
        horzontalLine == firstSegmentStartY = firstSegmentEndY
        up == firstSegmentStartY < firstSegmentEndY
        down == firstSegmentStartY > firstSegmentEndY
        left == firstSegmentStartX > firstSegmentEndX
        right == firstSegmentStartX < firstSegmentEndX
    IN IF verticalLine /\ up THEN <<firstSegmentStartX - halfDeltaX, firstSegmentStartY>>
       ELSE IF verticalLine /\ down THEN <<firstSegmentStartX + halfDeltaX, firstSegmentStartY>>
       ELSE IF horzontalLine /\ left THEN <<firstSegmentStartX, firstSegmentStartY - halfDeltaY>>
       ELSE IF horzontalLine /\ right THEN <<firstSegmentStartX, firstSegmentStartY + halfDeltaY>>
       ELSE IF right THEN <<firstSegmentStartX, firstSegmentStartY + halfDeltaY>>
       ELSE <<firstSegmentStartX, firstSegmentStartY - halfDeltaY>>

\* The probe point of lines 609-671.
ProbePoint(pathVertices) ==
    LET firstSegmentStartX == pathVertices[1][1]
        firstSegmentStartY == pathVertices[1][2]
        firstSegmentEndX == pathVertices[2][1]
        firstSegmentEndY == pathVertices[2][2]
        verticalLine == firstSegmentStartX = firstSegmentEndX
        horzontalLine == firstSegmentStartY = firstSegmentEndY
        up == firstSegmentStartY < firstSegmentEndY
        down == firstSegmentStartY > firstSegmentEndY
        left == firstSegmentStartX > firstSegmentEndX
        right == firstSegmentStartX < firstSegmentEndX
        onYGrid == \E i \in 1..Len(yCoords) : yCoords[i] = firstSegmentStartY
    IN IF verticalLine /\ up THEN <<firstSegmentStartX - halfDeltaX, firstSegmentStartY>>
       ELSE IF verticalLine /\ down THEN <<firstSegmentStartX + halfDeltaX, firstSegmentStartY>>
       ELSE IF horzontalLine /\ left THEN <<firstSegmentStartX, firstSegmentStartY - halfDeltaY>>
       ELSE IF horzontalLine /\ right THEN <<firstSegmentStartX, firstSegmentStartY + halfDeltaY>>
       ELSE IF onYGrid /\ up THEN <<firstSegmentStartX - halfDeltaX, firstSegmentStartY>>
       ELSE IF onYGrid /\ down THEN <<firstSegmentStartX + halfDeltaX, firstSegmentStartY>>
       ELSE IF right THEN <<firstSegmentStartX, firstSegmentStartY + halfDeltaY>>
       ELSE <<firstSegmentStartX, firstSegmentStartY - halfDeltaY>>

\* Returns pathIsCCW and areaZValue; ok is FALSE when the lookup raises.
TestClockwise(pathVertices) ==
    LET pointToCheck == ProbePoint(pathVertices)
    IN IF ~ContainsPointInflated(pathVertices, pointToCheck)
       THEN [CCW |-> FALSE, z |-> "none", ok |-> TRUE]
       ELSE [CCW |-> TRUE, z |-> ZValueAt(pointToCheck).z, ok |-> ZValueAt(pointToCheck).ok]

----------------------------------------------------------------------------
\* close_paths (lines 417-566).

\* First loop (lines 456-473) over the open starts in the iteration order given.
\* Returns newPaths, pathStartToZValue, closedStartPoints.
CloseSameEdge(pathsDict, order) ==
    LET step(st, i) ==
            IF ~st.ok THEN st
            ELSE IF i \notin DOMAIN pathsDict THEN [st EXCEPT !.ok = FALSE]
            ELSE
             LET endOfPath == Last(pathsDict[i])
                 currentPath == Append(pathsDict[i], i)
                 t == TestClockwise(currentPath)
             IN IF ~(i[1] = endOfPath[1] \/ i[2] = endOfPath[2]) THEN st
                ELSE IF ~t.CCW THEN st
                ELSE IF ~t.ok THEN [st EXCEPT !.ok = FALSE]
                ELSE [newPaths |-> Put(st.newPaths, i, currentPath),
                      pathStartToZValue |-> Append(st.pathStartToZValue, <<i, t.z>>),
                      closedStartPoints |-> st.closedStartPoints \cup {i},
                      ok |-> TRUE]
        f[n \in 0..Len(order)] ==
            IF n = 0
            THEN [newPaths |-> EmptyDict, pathStartToZValue |-> <<>>, closedStartPoints |-> {}, ok |-> TRUE]
            ELSE step(f[n - 1], order[n])
    IN f[Len(order)]

\* The open starts the first loop does more than read: those whose path starts and ends
\* on the same coordinate and is found counter-clockwise (or whose lookup raises).  The
\* loop leaves no trace of the others, so only the order of these matters.
SameEdgeClosable(pathsDict, open) ==
    {i \in open : i \notin DOMAIN pathsDict
                  \/ /\ (i[1] = Last(pathsDict[i])[1] \/ i[2] = Last(pathsDict[i])[2])
                     /\ TestClockwise(Append(pathsDict[i], i)).CCW}

\* currentXMovement of lines 489 and 505.
XMovement(pos) ==
    IF pos[1] = xMax \/ pos[1] = xMin THEN 0
    ELSE IF pos[2] = yMin THEN deltaX ELSE -deltaX

\* currentYMovement of lines 490 and 506.
YMovement(pos) ==
    IF pos[2] = yMax \/ pos[2] = yMin THEN 0
    ELSE IF pos[1] = xMax THEN deltaY ELSE -deltaY

\* One iteration of the while loop without the turns at the corners of the frame
\* (lines 513-540 left out).
WalkStepNoTurn(pathsDict, w) ==
    LET moved == <<w.pos[1] + w.dx, w.pos[2] + w.dy>>
        absorb == moved \in w.open
    IN IF ~absorb THEN [w EXCEPT !.pos = moved]
       ELSE IF moved \notin DOMAIN pathsDict THEN [w EXCEPT !.ok = FALSE]
       ELSE [w EXCEPT !.pos = Last(pathsDict[moved]),
                      !.open = w.open \ {moved},
                      !.path = w.path \o pathsDict[moved],
                      !.dx = XMovement(Last(pathsDict[moved])),
                      !.dy = YMovement(Last(pathsDict[moved]))]

\* One iteration of the while loop of line 491 (lines 494-540).
WalkStep(pathsDict, w) ==
    LET moved == <<w.pos[1] + w.dx, w.pos[2] + w.dy>>
        absorb == moved \in w.open
        w1 == IF ~absorb THEN [w EXCEPT !.pos = moved]
              ELSE IF moved \notin DOMAIN pathsDict THEN [w EXCEPT !.ok = FALSE]
              ELSE [w EXCEPT !.pos = Last(pathsDict[moved]),
                             !.open = w.open \ {moved},
                             !.path = w.path \o pathsDict[moved],
                             !.dx = XMovement(Last(pathsDict[moved])),
                             !.dy = YMovement(Last(pathsDict[moved]))]
        p == w1.pos
    IN IF ~w1.ok THEN w1
       ELSE IF p[1] = xMax + halfDeltaX
       THEN [w1 EXCEPT !.path = w1.path \o << <<xMax, yMin>>, <<xMax, yMin + halfDeltaY>> >>,
                       !.pos = <<xMax, yMin + halfDeltaY>>, !.dx = 0, !.dy = deltaY]
       ELSE IF p[1] = xMin - halfDeltaX
       THEN [w1 EXCEPT !.path = w1.path \o << <<xMin, yMax>>, <<xMin, yMax - halfDeltaY>> >>,
                       !.pos = <<xMin, yMax - halfDeltaY>>, !.dx = 0, !.dy = -deltaY]
       ELSE IF p[2] = yMax + halfDeltaY
       THEN [w1 EXCEPT !.path = w1.path \o << <<xMax, yMax>>, <<xMax - halfDeltaX, yMax>> >>,
                       !.pos = <<xMax - halfDeltaX, yMax>>, !.dx = -deltaX, !.dy = 0]
       ELSE IF p[2] = yMin - halfDeltaY
       THEN [w1 EXCEPT !.path = w1.path \o << <<xMin, yMin>>, <<xMin + halfDeltaX, yMin>> >>,
                       !.pos = <<xMin + halfDeltaX, yMin>>, !.dx = deltaX, !.dy = 0]
       ELSE w1

\* The while loop of line 491; fuel iterations at most, after which the walk counts as
\* endless.  The state after one iteration is bound as a value (next) before the loop
\* goes on with it.
RECURSIVE WalkLoop(_, _, _, _)
WalkLoop(pathsDict, w, currentStartingPoint, fuel) ==
    IF ~w.ok \/ w.pos = currentStartingPoint THEN w
    ELSE IF fuel = 0 THEN [w EXCEPT !.endless = TRUE]
    ELSE CHOOSE r \in {WalkLoop(pathsDict, next, currentStartingPoint, fuel - 1) :
                        next \in {WalkStep(pathsDict, w)}} : TRUE

\* Lines 477-543: the closed path of one popped start, and the open starts it leaves.
FrameWalk(pathsDict, currentStartingPoint, open) ==
    LET currentPath == pathsDict[currentStartingPoint]
        w == WalkLoop(pathsDict,
                      [path |-> currentPath, pos |-> Last(currentPath),
                       dx |-> XMovement(Last(currentPath)), dy |-> YMovement(Last(currentPath)),
                       open |-> open, ok |-> TRUE, endless |-> FALSE],
                      currentStartingPoint, MaxWalk)
    IN [w EXCEPT !.path = Append(w.path, currentStartingPoint)]

\* Variant with the sign of the bottom-edge case flipped.
InteriorSampleBottomFlipped(currentStartingPoint) ==
    IF currentStartingPoint[1] = xMin
    THEN <<currentStartingPoint[1], currentStartingPoint[2] + halfDeltaY>>
    ELSE IF currentStartingPoint[1] = xMax
    THEN <<currentStartingPoint[1], currentStartingPoint[2] - halfDeltaY>>
    ELSE <<currentStartingPoint[1] + halfDeltaX, currentStartingPoint[2]>>

\* pointToCheck of lines 545-557.
InteriorSample(currentStartingPoint) ==
    IF currentStartingPoint[1] = xMin
    THEN <<currentStartingPoint[1], currentStartingPoint[2] + halfDeltaY>>
    ELSE IF currentStartingPoint[1] = xMax
    THEN <<currentStartingPoint[1], currentStartingPoint[2] - halfDeltaY>>
    ELSE IF currentStartingPoint[2] = yMin
    THEN <<currentStartingPoint[1] - halfDeltaX, currentStartingPoint[2]>>
    ELSE <<currentStartingPoint[1] + halfDeltaX, currentStartingPoint[2]>>

----------------------------------------------------------------------------
\* calc_area_hierarchy (lines 367-414).

\* nested[i]: the starts, in the order of pathStarts, whose path lies inside path i.
Nested(pathStarts, pathsDict, i) ==
    SelectSeq(pathStarts, LAMBDA j : ContainsPath(pathsDict[i], pathsDict[j]))

\* Variant that sorts ascending by key.
SortedAscending(l, nested) ==
    LET key(x) == Len(nested[x])
        Insert(s, x) ==
            LET before == SelectSeq(s, LAMBDA y : key(y) <= key(x))
                after == SelectSeq(s, LAMBDA y : key(y) > key(x))
            IN before \o <<x>> \o after
        f[n \in 0..Len(l)] == IF n = 0 THEN <<>> ELSE Insert(f[n - 1], l[n])
    IN f[Len(l)]

\* sorted(l, key=lambda x : len(nested[x]), reverse=True): descending by key, equal keys
\* in their original order.
SortedDescending(l, nested) ==
    LET key(x) == Len(nested[x])
        Insert(s, x) ==
            LET before == SelectSeq(s, LAMBDA y : key(y) >= key(x))
                after == SelectSeq(s, LAMBDA y : key(y) < key(x))
            IN before \o <<x>> \o after
        f[n \in 0..Len(l)] == IF n = 0 THEN <<>> ELSE Insert(f[n - 1], l[n])
    IN f[Len(l)]

CalcAreaHierarchy(pathStarts, pathsDict) ==
    LET starts == {pathStarts[n] : n \in 1..Len(pathStarts)}
        nested == [i \in starts |-> Nested(pathStarts, pathsDict, i)]
        Remove(i) ==
            LET internalsSortedBySizeDecreasing ==
                    SortedDescending(nested[i], nested)
                g[n \in 0..Len(internalsSortedBySizeDecreasing)] ==
                    IF n = 0 THEN [toRemove |-> {}, included |-> {}]
                    ELSE LET j == internalsSortedBySizeDecreasing[n]
                         IN [toRemove |-> IF j \notin g[n - 1].included
                                          THEN g[n - 1].toRemove \cup {j} ELSE g[n - 1].toRemove,
                             included |-> g[n - 1].included \cup {nested[j][m] : m \in 1..Len(nested[j])}]
            IN g[Len(internalsSortedBySizeDecreasing)].toRemove
    IN [i \in starts |-> Remove(i)]

----------------------------------------------------------------------------
\* The patch of one region (body of the loop of line 348).

\* codes of lines 350 and 356.
Codes(n) == [k \in 1..n |-> IF k = 1 THEN "MOVETO" ELSE "LINETO"]

\* verts and codes after the holes in the iteration order given; verts is the
\* list object paths[i], so paths[i] grows with it.
PatchOf(pathsDict, i, holes) ==
    LET f[n \in 0..Len(holes)] ==
            IF n = 0 THEN [paths |-> pathsDict, codes |-> Codes(Len(pathsDict[i]))]
            ELSE LET pathOfJ == f[n - 1].paths[holes[n]]
                 IN [paths |-> [f[n - 1].paths EXCEPT ![i] = @ \o Reverse(pathOfJ)],
                     codes |-> f[n - 1].codes \o Codes(Len(pathOfJ))]
    IN f[Len(holes)]

----------------------------------------------------------------------------
\* Inputs.

Cats == 0..(NumCats - 1)

\* Shapes with at least two rows and two columns (line 122 reads xCoords[0,1], line 125 yCoords[1,0]).
Shapes == (2..MaxRows) \X (2..MaxCols)

\* np.arange style coordinates: smallest at index [0, 0], step 6.
Ascending(n) == [k \in 1..n |-> 6 * (k - 1)]

\* Category matrices.  Categories are only ever compared for equality, so the first
\* sample is given category 0.
Grids(r, c) == {g \in [1..r -> [1..c -> Cats]] : g[1][1] = 0}

\* The 3x3 grids of the concrete scenarios, A = 0 and B = 1 (row 1 has the smallest Y).
Staircase == << <<0, 0, 1>>, <<0, 1, 1>>, <<0, 1, 1>> >>

Donut == << <<0, 0, 0>>, <<0, 1, 0>>, <<0, 0, 0>> >>

\* A 3x3 grid whose region of category 0 touches the frame and surrounds the centre sample.
IslandAndCorner == << <<0, 0, 0>>, <<0, 1, 0>>, <<0, 0, 1>> >>

ScenarioGrids == {Staircase, Donut, IslandAndCorner}

EnumeratedGrids == UNION {Grids(rc[1], rc[2]) : rc \in Shapes}

\* Everything but the input matrices.
InitControl ==
    /\ pc = "start"
    /\ boundaryCoords = {}
    /\ paths = EmptyDict
    /\ startsToEnds = EmptyDict
    /\ endsToStarts = EmptyDict
    /\ pathsStartsToRegionZValues = <<>>
    /\ openStartingPoints = {}
    /\ newPaths = EmptyDict
    /\ pathStartToZValue = <<>>
    /\ removeInternalPaths = EmptyDict
    /\ toEmit = 0
    /\ emitted = {}

\* main called without levels: the test of line 101 fails and lines 102-106 are skipped.
Init ==
    /\ levels = <<>>
    /\ zValues \in EnumeratedGrids \cup ScenarioGrids
    /\ xCoords = Ascending(Len(zValues[1]))
    /\ yCoords = Ascending(Len(zValues))
    /\ InitControl

----------------------------------------------------------------------------
\* Actions.

\* Lines 117-170: the squares with a boundary, and the three empty dicts.
ExtractSquares ==
    /\ pc = "start"
    /\ boundaryCoords' = InitialBoundaryCoords
    /\ pc' = "stitch"
    /\ UNCHANGED <<levels, xCoords, yCoords, zValues, paths, startsToEnds, endsToStarts,
                   pathsStartsToRegionZValues, openStartingPoints, newPaths, pathStartToZValue,
                   removeInternalPaths, toEmit, emitted>>

CurrentMaps == Maps(paths, startsToEnds, endsToStarts, TRUE)

\* Lines 171-300: one iteration of the loop over boundaryCoords.
StitchSquare ==
    /\ pc = "stitch"
    /\ \E sq \in boundaryCoords :
        \E oFill \in Orders(FillGaps(CurrentMaps, sq)), oStart \in Orders(ExtendStarts(CurrentMaps, sq)),
           oEnd \in Orders(ExtendEnds(CurrentMaps, sq)), oNew \in Orders(NewAlones(CurrentMaps, sq)) :
            LET m == ApplySquare(CurrentMaps, sq, oFill, oStart, oEnd, oNew)
            IN IF m.ok
               THEN /\ paths' = m.paths
                    /\ startsToEnds' = m.startsToEnds
                    /\ endsToStarts' = m.endsToStarts
                    /\ boundaryCoords' = boundaryCoords \ {sq}
                    /\ pc' = "stitch"
               ELSE /\ pc' = "failed"
                    /\ UNCHANGED <<paths, startsToEnds, endsToStarts, boundaryCoords>>
    /\ UNCHANGED <<levels, xCoords, yCoords, zValues, pathsStartsToRegionZValues, openStartingPoints,
                   newPaths, pathStartToZValue, removeInternalPaths, toEmit, emitted>>

\* Lines 318-333: the counter-clockwise closed loops, then the open starts.
TestClosedPaths ==
    /\ pc = "stitch"
    /\ boundaryCoords = {}
    /\ LET closedPathStarts == {i \in DOMAIN startsToEnds : startsToEnds[i] = i}
           openPathStarts == {i \in DOMAIN startsToEnds : startsToEnds[i] # i}
           \* a loop found clockwise leaves no trace, so only the order of the others matters
           kept == {i \in closedPathStarts : i \in DOMAIN paths /\ TestClockwise(paths[i]).CCW}
       IN IF \E i \in closedPathStarts : i \notin DOMAIN paths \/ ~TestClockwise(paths[i]).ok
          THEN /\ pc' = "failed"
               /\ UNCHANGED <<pathsStartsToRegionZValues, openStartingPoints>>
          ELSE /\ \E order \in Orders(kept) :
                    pathsStartsToRegionZValues' =
                        [n \in 1..Len(order) |-> <<order[n], TestClockwise(paths[order[n]]).z>>]
               /\ openStartingPoints' = openPathStarts
               /\ pc' = "close"
    /\ UNCHANGED <<levels, xCoords, yCoords, zValues, boundaryCoords, paths, startsToEnds, endsToStarts,
                   newPaths, pathStartToZValue, removeInternalPaths, toEmit, emitted>>

\* Variant that also takes the same-edge paths found clockwise out of openStartingPoints.
CloseSameEdgePathsDropClockwise ==
    /\ pc = "close"
    /\ \E order \in Orders(SameEdgeClosable(paths, openStartingPoints)) :
        LET r == CloseSameEdge(paths, order)
            sameEdge == {i \in openStartingPoints :
                            i[1] = Last(paths[i])[1] \/ i[2] = Last(paths[i])[2]}
        IN IF r.ok
           THEN /\ newPaths' = r.newPaths
                /\ pathStartToZValue' = r.pathStartToZValue
                /\ openStartingPoints' = openStartingPoints \ sameEdge
                /\ pc' = "walk"
           ELSE /\ pc' = "failed"
                /\ UNCHANGED <<newPaths, pathStartToZValue, openStartingPoints>>
    /\ UNCHANGED <<levels, xCoords, yCoords, zValues, boundaryCoords, paths, startsToEnds, endsToStarts,
                   pathsStartsToRegionZValues, removeInternalPaths, toEmit, emitted>>

\* Lines 443-473: paths that start and end on the same figure edge.
CloseSameEdgePaths ==
    /\ pc = "close"
    /\ \E order \in Orders(SameEdgeClosable(paths, openStartingPoints)) :
        LET r == CloseSameEdge(paths, order)
        IN IF r.ok
           THEN /\ newPaths' = r.newPaths
                /\ pathStartToZValue' = r.pathStartToZValue
                /\ openStartingPoints' = openStartingPoints \ r.closedStartPoints
                /\ pc' = "walk"
           ELSE /\ pc' = "failed"
                /\ UNCHANGED <<newPaths, pathStartToZValue, openStartingPoints>>
    /\ UNCHANGED <<levels, xCoords, yCoords, zValues, boundaryCoords, paths, startsToEnds, endsToStarts,
                   pathsStartsToRegionZValues, removeInternalPaths, toEmit, emitted>>

\* Lines 476-564: one iteration of the loop that pops an open start and walks the frame.
WalkOpenPath ==
    /\ pc = "walk"
    /\ \E currentStartingPoint \in openStartingPoints :
        IF currentStartingPoint \notin DOMAIN paths
        THEN /\ pc' = "failed"
             /\ UNCHANGED <<newPaths, pathStartToZValue, openStartingPoints>>
        ELSE
         LET w == FrameWalk(paths, currentStartingPoint, openStartingPoints \ {currentStartingPoint})
             areaZValue == ZValueAt(InteriorSample(currentStartingPoint))
         IN IF w.endless
            THEN /\ pc' = "hung"
                 /\ UNCHANGED <<newPaths, pathStartToZValue, openStartingPoints>>
            ELSE IF ~w.ok \/ ~areaZValue.ok
            THEN /\ pc' = "failed"
                 /\ UNCHANGED <<newPaths, pathStartToZValue, openStartingPoints>>
            ELSE /\ newPaths' = Put(newPaths, currentStartingPoint, w.path)
                 /\ pathStartToZValue' = Append(pathStartToZValue, <<currentStartingPoint, areaZValue.z>>)
                 /\ openStartingPoints' = w.open
                 /\ pc' = "walk"
    /\ UNCHANGED <<levels, xCoords, yCoords, zValues, boundaryCoords, paths, startsToEnds, endsToStarts,
                   pathsStartsToRegionZValues, removeInternalPaths, toEmit, emitted>>

\* Lines 335-345: record the closed paths and compute the hierarchy.
ComputeHierarchy ==
    /\ pc = "walk"
    /\ openStartingPoints = {}
    /\ LET closedPaths == newPaths
           paths1 == [i \in (DOMAIN paths) \cup (DOMAIN closedPaths) |->
                        IF i \in DOMAIN closedPaths THEN closedPaths[i] ELSE paths[i]]
           regions == pathsStartsToRegionZValues \o pathStartToZValue
       IN /\ paths' = paths1
          /\ pathsStartsToRegionZValues' = regions
          /\ removeInternalPaths' = CalcAreaHierarchy(Keys(regions), paths1)
          /\ toEmit' = 1
          /\ pc' = IF Len(regions) = 0 THEN "done" ELSE "emit"
    /\ UNCHANGED <<levels, xCoords, yCoords, zValues, boundaryCoords, startsToEnds, endsToStarts,
                   openStartingPoints, newPaths, pathStartToZValue, emitted>>

\* Lines 348-359: one iteration of the loop that adds the patch of a region.
EmitRegion ==
    /\ pc = "emit"
    /\ LET i == pathsStartsToRegionZValues[toEmit][1]
       IN \E holes \in Orders(removeInternalPaths[i]) :
            LET patch == PatchOf(paths, i, holes)
            IN /\ paths' = patch.paths
               /\ emitted' = emitted \cup {[start |-> i,
                                            z |-> pathsStartsToRegionZValues[toEmit][2],
                                            verts |-> patch.paths[i],
                                            codes |-> patch.codes]}
    /\ toEmit' = toEmit + 1
    /\ pc' = IF toEmit = Len(pathsStartsToRegionZValues) THEN "done" ELSE "emit"
    /\ UNCHANGED <<levels, xCoords, yCoords, zValues, boundaryCoords, startsToEnds, endsToStarts,
                   pathsStartsToRegionZValues, openStartingPoints, newPaths, pathStartToZValue,
                   removeInternalPaths>>

Next ==
    \/ ExtractSquares
    \/ StitchSquare
    \/ TestClosedPaths
    \/ CloseSameEdgePaths
    \/ WalkOpenPath
    \/ ComputeHierarchy
    \/ EmitRegion

Spec == Init /\ [][Next]_vars

\* The same program started on any coordinate vectors main can be handed: main reads the
\* matrices as they are (lines 117-125), so the X coordinates may also decrease along a
\* row, or stop increasing after the second column.
Descending(n) == [k \in 1..n |-> 6 * (n - k)]

Repeated(n) == [k \in 1..n |-> IF k = 1 THEN 0 ELSE 6]

InitAnyCoords ==
    /\ levels = <<>>
    /\ zValues \in EnumeratedGrids \cup ScenarioGrids
    /\ xCoords \in {Ascending(Len(zValues[1])), Descending(Len(zValues[1])),
                    Repeated(Len(zValues[1]))}
    /\ yCoords = Ascending(Len(zValues))
    /\ InitControl

SpecAnyCoords == InitAnyCoords /\ [][Next]_vars

----------------------------------------------------------------------------
\* main called with discretization levels (lines 100-106) on the smallest grid it takes.

\* Variant whose buckets are closed below and open above.
DiscretiseClosedBelow(z, lv) ==
    LET all == {z[i][j] : i \in 1..Len(z), j \in 1..Len(z[1])}
        minZValue == CHOOSE a \in all : \A b \in all : a <= b
        maxZValue == CHOOSE a \in all : \A b \in all : a >= b
        extendedLevels == <<minZValue - 1>> \o lv \o <<maxZValue + 1>>
        Bucket(v) ==
            LET sum[i \in 0..(Len(extendedLevels) - 1)] ==
                    IF i = 0 THEN 0
                    ELSE sum[i - 1] + (IF extendedLevels[i] <= v /\ v < extendedLevels[i + 1]
                                       THEN i ELSE 0)
            IN sum[Len(extendedLevels) - 1]
    IN [i \in 1..Len(z) |-> [j \in 1..Len(z[1]) |-> Bucket(z[i][j])]]

\* Lines 102-106: every value becomes the sum of (i + 1) over the pairs i of adjacent
\* extended levels with lower < value <= upper (i + 1 is the 1-based index used here).
Discretise(z, lv) ==
    LET all == {z[i][j] : i \in 1..Len(z), j \in 1..Len(z[1])}
        minZValue == CHOOSE a \in all : \A b \in all : a <= b
        maxZValue == CHOOSE a \in all : \A b \in all : a >= b
        extendedLevels == <<minZValue - 1>> \o lv \o <<maxZValue + 1>>
        Bucket(v) ==
            LET sum[i \in 0..(Len(extendedLevels) - 1)] ==
                    IF i = 0 THEN 0
                    ELSE sum[i - 1] + (IF extendedLevels[i] < v /\ v <= extendedLevels[i + 1]
                                       THEN i ELSE 0)
            IN sum[Len(extendedLevels) - 1]
    IN [i \in 1..Len(z) |-> [j \in 1..Len(z[1]) |-> Bucket(z[i][j])]]

\* Lines 100-106.
DiscretiseZValues ==
    /\ pc = "levels"
    /\ zValues' = Discretise(zValues, levels)
    /\ pc' = "start"
    /\ UNCHANGED <<levels, xCoords, yCoords, boundaryCoords, paths, startsToEnds, endsToStarts,
                   pathsStartsToRegionZValues, openStartingPoints, newPaths, pathStartToZValue,
                   removeInternalPaths, toEmit, emitted>>

RawValues == 0..MaxZ

\* Non-empty lists of levels, in any order and with repeats.
LevelLists == UNION {[1..n -> RawValues] : n \in 1..MaxLevels}

InitLevels ==
    /\ levels \in LevelLists
    /\ zValues \in [1..2 -> [1..2 -> RawValues]]
    /\ xCoords = Ascending(2)
    /\ yCoords = Ascending(2)
    /\ pc = "levels"
    /\ boundaryCoords = {}
    /\ paths = EmptyDict
    /\ startsToEnds = EmptyDict
    /\ endsToStarts = EmptyDict
    /\ pathsStartsToRegionZValues = <<>>
    /\ openStartingPoints = {}
    /\ newPaths = EmptyDict
    /\ pathStartToZValue = <<>>
    /\ removeInternalPaths = EmptyDict
    /\ toEmit = 0
    /\ emitted = {}

NextLevels ==
    \/ DiscretiseZValues
    \/ Next

SpecLevels == InitLevels /\ [][NextLevels]_vars

----------------------------------------------------------------------------
\* The whole of main with every set iterated in one fixed order: the run that the
\* other runs are compared with.

RECURSIVE ChosenOrder(_)
ChosenOrder(S) ==
    IF S = {} THEN <<>>
    ELSE LET x == CHOOSE x \in S : TRUE
         IN <<x>> \o ChosenOrder(S \ {x})

\* Lines 171-300 over the squares left.
RECURSIVE ReferenceStitch(_, _)
ReferenceStitch(m, squares) ==
    IF squares = {} \/ ~m.ok THEN m
    ELSE LET sq == CHOOSE sq \in squares : TRUE
         IN ReferenceStitch(ApplySquare(m, sq, ChosenOrder(FillGaps(m, sq)),
                                        ChosenOrder(ExtendStarts(m, sq)),
                                        ChosenOrder(ExtendEnds(m, sq)),
                                        ChosenOrder(NewAlones(m, sq))),
                            squares \ {sq})

\* Lines 476-564 over the open starts left.
RECURSIVE ReferenceWalk(_, _, _)
ReferenceWalk(pathsDict, open, st) ==
    IF open = {} \/ ~st.ok THEN st
    ELSE LET currentStartingPoint == CHOOSE c \in open : TRUE
         IN IF currentStartingPoint \notin DOMAIN pathsDict THEN [st EXCEPT !.ok = FALSE]
            ELSE LET w == FrameWalk(pathsDict, currentStartingPoint, open \ {currentStartingPoint})
                     areaZValue == ZValueAt(InteriorSample(currentStartingPoint))
                 IN IF w.endless \/ ~w.ok \/ ~areaZValue.ok THEN [st EXCEPT !.ok = FALSE]
                    ELSE ReferenceWalk(pathsDict, w.open,
                            [newPaths |-> Put(st.newPaths, currentStartingPoint, w.path),
                             pathStartToZValue |->
                                Append(st.pathStartToZValue, <<currentStartingPoint, areaZValue.z>>),
                             ok |-> TRUE])

\* Lines 348-359 over the regions in their order.
ReferenceEmit(regions, pathsDict, remove) ==
    LET f[n \in 0..Len(regions)] ==
            IF n = 0 THEN [paths |-> pathsDict, emitted |-> {}]
            ELSE LET i == regions[n][1]
                     patch == PatchOf(f[n - 1].paths, i, ChosenOrder(remove[i]))
                 IN [paths |-> patch.paths,
                     emitted |-> f[n - 1].emitted \cup {[start |-> i, z |-> regions[n][2],
                                                         verts |-> patch.paths[i],
                                                         codes |-> patch.codes]}]
    IN f[Len(regions)].emitted

\* Lines 117-359: ok is FALSE when the run raises or does not end.
ReferenceRun ==
    LET m == ReferenceStitch(Maps(EmptyDict, EmptyDict, EmptyDict, TRUE), InitialBoundaryCoords)
        closedPathStarts == {i \in DOMAIN m.startsToEnds : m.startsToEnds[i] = i}
        openPathStarts == {i \in DOMAIN m.startsToEnds : m.startsToEnds[i] # i}
        loopsFine == \A i \in closedPathStarts : i \in DOMAIN m.paths /\ TestClockwise(m.paths[i]).ok
        kept == ChosenOrder({i \in closedPathStarts : TestClockwise(m.paths[i]).CCW})
        loops == [n \in 1..Len(kept) |-> <<kept[n], TestClockwise(m.paths[kept[n]]).z>>]
        r == CloseSameEdge(m.paths, ChosenOrder(SameEdgeClosable(m.paths, openPathStarts)))
        w == ReferenceWalk(m.paths, openPathStarts \ r.closedStartPoints,
                           [newPaths |-> r.newPaths, pathStartToZValue |-> r.pathStartToZValue,
                            ok |-> TRUE])
        closedPaths == w.newPaths
        paths1 == [i \in (DOMAIN m.paths) \cup (DOMAIN closedPaths) |->
                     IF i \in DOMAIN closedPaths THEN closedPaths[i] ELSE m.paths[i]]
        regions == loops \o w.pathStartToZValue
    IN IF ~m.ok THEN [ok |-> FALSE, emitted |-> {}]
       ELSE IF ~loopsFine THEN [ok |-> FALSE, emitted |-> {}]
       ELSE IF ~r.ok THEN [ok |-> FALSE, emitted |-> {}]
       ELSE IF ~w.ok THEN [ok |-> FALSE, emitted |-> {}]
       ELSE [ok |-> TRUE,
             emitted |-> ReferenceEmit(regions, paths1, CalcAreaHierarchy(Keys(regions), paths1))]

----------------------------------------------------------------------------
\* Vocabulary of the properties.

Samples == (1..numberOfRows) \X (1..numberOfCols)

\* Two samples next to each other in a row or a column, with the same category.
SameRegionNeighbours(a, b) ==
    /\ Abs(a[1] - b[1]) + Abs(a[2] - b[2]) = 1
    /\ zValues[a[1]][a[2]] = zValues[b[1]][b[2]]

RECURSIVE RegionFrom(_)
RegionFrom(set) ==
    LET grown == set \cup {b \in Samples : \E a \in set : SameRegionNeighbours(a, b)}
    IN IF grown = set THEN set ELSE RegionFrom(grown)

\* The maximal regions of constant category.
MaximalRegions == {RegionFrom({a}) : a \in Samples}

Uniform == \A a \in Samples : zValues[a[1]][a[2]] = zValues[1][1]

\* The index of the first vertex of every sub-path of a patch.
SubPathStarts(patch) == {n \in 1..Len(patch.codes) : patch.codes[n] = "MOVETO"}

\* The sub-path that starts at index a.
SubPathAt(patch, a) ==
    LET later == {n \in SubPathStarts(patch) : n > a}
        last == IF later = {} THEN Len(patch.verts)
                ELSE (CHOOSE n \in later : \A n2 \in later : n <= n2) - 1
    IN SubSeq(patch.verts, a, last)

\* Winding number of the implicitly closed polygon around a point that is on none of its edges.
WindingNumber(verts, pt) ==
    LET n == Len(verts)
        IsLeft(a, b) == (b[1] - a[1]) * (pt[2] - a[2]) - (pt[1] - a[1]) * (b[2] - a[2])
        Turn(k) ==
            LET a == verts[k]
                b == verts[(k % n) + 1]
            IN IF a[2] <= pt[2] /\ b[2] > pt[2] /\ IsLeft(a, b) > 0 THEN 1
               ELSE IF a[2] > pt[2] /\ b[2] <= pt[2] /\ IsLeft(a, b) < 0 THEN -1
               ELSE 0
        sum[k \in 0..n] == IF k = 0 THEN 0 ELSE sum[k - 1] + Turn(k)
    IN sum[n]

\* Winding number of a patch: the sum over its sub-paths.
PatchWinding(patch, pt) ==
    LET acc[n \in 0..Len(patch.codes)] ==
            IF n = 0 THEN 0
            ELSE acc[n - 1] + (IF patch.codes[n] = "MOVETO"
                               THEN WindingNumber(SubPathAt(patch, n), pt) ELSE 0)
    IN acc[Len(patch.codes)]

\* The patch paints the point (non-zero winding over all its sub-paths).
Paints(patch, pt) == PatchWinding(patch, pt) # 0

\* Points one unit away from a sample in both directions, strictly inside the grid
\* rectangle.  Every segment of a path joins side midpoints, square middles and frame
\* corners, so none passes through such a point.
PointsNearSample(a) ==
    {pt \in {<<xCoords[a[2]] + dx, yCoords[a[1]] + dy>> : dx \in {-1, 1}, dy \in {-1, 1}} :
        /\ xMin < pt[1] /\ pt[1] < xMax
        /\ yMin < pt[2] /\ pt[2] < yMax}

\* Twice the signed area of the implicitly closed polygon.
TwiceArea(verts) ==
    LET n == Len(verts)
        sum[k \in 0..n] ==
            IF k = 0 THEN 0
            ELSE sum[k - 1] + verts[k][1] * verts[(k % n) + 1][2] - verts[(k % n) + 1][1] * verts[k][2]
    IN sum[n]

\* Twice the area a patch fills: every sub-path counted with its sign, so holes subtract.
TwicePatchArea(patch) ==
    LET acc[n \in 0..Len(patch.codes)] ==
            IF n = 0 THEN 0
            ELSE acc[n - 1] + (IF patch.codes[n] = "MOVETO"
                               THEN TwiceArea(SubPathAt(patch, n)) ELSE 0)
    IN acc[Len(patch.codes)]

RECURSIVE SumPatches(_)
SumPatches(set) ==
    IF set = {} THEN 0
    ELSE LET p == CHOOSE x \in set : TRUE IN TwicePatchArea(p) + SumPatches(set \ {p})

TwiceGridArea == 2 * (xMax - xMin) * (yMax - yMin)

\* Two consecutive identical vertices.
HasZeroLengthSegment(verts) == \E n \in 1..(Len(verts) - 1) : verts[n] = verts[n + 1]

\* The same directed segment twice in one vertex list.
HasDuplicatedSegment(verts) ==
    \E n, m \in 1..(Len(verts) - 1) : n < m /\ verts[n] = verts[m] /\ verts[n + 1] = verts[m + 1]

StitchingOver == pc \in {"close", "walk", "emit", "done"}

----------------------------------------------------------------------------
\* C1: in solid-fill mode the number of emitted polygons equals the number of maximal
\* regions of constant category of the grid.
C1_OnePolygonPerRegion == pc = "done" => Cardinality(emitted) = Cardinality(MaximalRegions)

\* C2: the emitted polygons tile the grid: every point of the grid rectangle (checked at
\* the points next to every sample) is painted by exactly one polygon.
C2_PolygonsTileGrid ==
    pc = "done" =>
        \A a \in Samples : \A pt \in PointsNearSample(a) :
            Cardinality({patch \in emitted : Paints(patch, pt)}) = 1

\* C3: a grid of one category yields no boundary segment (empty paths map) and, in
\* solid-fill mode, exactly one region that covers the full extent and has no holes.
C3_UniformGridOneRegion ==
    Uniform =>
        /\ pc # "start" => boundaryCoords = {} /\ DOMAIN paths = {}
        /\ pc = "done" =>
            \E patch \in emitted :
                /\ emitted = {patch}
                /\ Cardinality(SubPathStarts(patch)) = 1
                /\ TwicePatchArea(patch) = TwiceGridArea

\* C4: for the donut (one interior sample of category B surrounded by A) solid fill
\* yields a polygon for A with one hole, a simple polygon for B, and the direct-child
\* set of A is exactly {B}.
C4_DonutHole ==
    (zValues = Donut /\ pc = "done") =>
        \E pa, pb \in emitted :
            /\ pa.z = 0 /\ Cardinality(SubPathStarts(pa)) = 2
            /\ pb.z = 1 /\ Cardinality(SubPathStarts(pb)) = 1
            /\ removeInternalPaths[pa.start] = {pb.start}

\* C5 as stated: for the 3x3 staircase grid the stitcher ends with exactly one entry in
\* the paths map.
C5_OnePathEntry == (zValues = Staircase /\ StitchingOver) => Cardinality(DOMAIN startsToEnds) = 1

\* C5 amended: for the 3x3 staircase grid the stitcher ends with exactly two entries in
\* the paths map: the one boundary polyline between A and B, recorded once in each
\* direction, both open.
C5_OneBoundaryBothDirections ==
    (zValues = Staircase /\ StitchingOver) =>
        /\ Cardinality(DOMAIN startsToEnds) = 2
        /\ \A s \in DOMAIN startsToEnds :
            /\ startsToEnds[s] # s
            /\ startsToEnds[s] \in DOMAIN startsToEnds
            /\ startsToEnds[startsToEnds[s]] = s
            /\ endsToStarts[startsToEnds[s]] = s

C5_Witness == zValues = Staircase /\ pc = "close" /\ Cardinality(DOMAIN paths) = 2

\* C6: for the 3x3 staircase grid solid fill emits exactly two polygons, one tagged A and
\* one tagged B, their areas sum to the area of the grid, and both direct-child sets are
\* empty.
C6_StaircaseTwoPolygons ==
    (zValues = Staircase /\ pc = "done") =>
        /\ Cardinality(emitted) = 2
        /\ {patch.z : patch \in emitted} = {0, 1}
        /\ SumPatches(emitted) = TwiceGridArea
        /\ \A patch \in emitted : removeInternalPaths[patch.start] = {}
        /\ \A patch \in emitted : \A a \in Samples : \A pt \in PointsNearSample(a) :
            Paints(patch, pt) <=> zValues[a[1]][a[2]] = patch.z

C6_Witness == zValues = Staircase /\ pc = "done" /\ Cardinality(emitted) = 2

\* A square whose four sides all have unequal corners.
CheckerboardSquares ==
    {sq \in InitialBoundaryCoords : Len(sq) = 4}

\* C7: with a checkerboarded square all four side midpoints are routed through the
\* middle of the square, no step fails, and no path, after stitching or after closing,
\* has a zero-length segment or a duplicated segment.
C7_CheckerboardClean ==
    CheckerboardSquares # {} =>
        /\ pc # "failed"
        /\ \A s \in DOMAIN paths :
            /\ ~HasZeroLengthSegment(paths[s])
            /\ ~HasDuplicatedSegment(paths[s])
        /\ \A s \in DOMAIN newPaths :
            /\ ~HasZeroLengthSegment(newPaths[s])
            /\ ~HasDuplicatedSegment(newPaths[s])
        /\ \A sq \in CheckerboardSquares \ boundaryCoords : pc # "start" =>
            \A seg \in SquareSegments(sq) :
                \E s \in DOMAIN paths : \E n \in 1..(Len(paths[s]) - 2) :
                    /\ paths[s][n] = seg[1]
                    /\ <<paths[s][n + 1]>> = MiddleOfSquare(sq)
                    /\ paths[s][n + 2] = seg[2]

\* The direct-child links that can be followed from the starts in the set.
RECURSIVE Descendants(_)
Descendants(set) ==
    LET grown == set \cup UNION {removeInternalPaths[i] : i \in set}
    IN IF grown = set THEN set ELSE Descendants(grown)

\* C9: the direct-child map is acyclic: no path is its own direct child and none can be
\* reached from itself by following direct-child links.
C9_HierarchyAcyclic ==
    pc \in {"emit", "done"} =>
        \A i \in DOMAIN removeInternalPaths : i \notin Descendants(removeInternalPaths[i])

C9_Witness ==
    /\ pc = "done"
    /\ \E i \in DOMAIN removeInternalPaths : removeInternalPaths[i] # {}

\* The distinct vertices of a closed sub-path in their cyclic order: the closing vertex
\* and any vertex equal to the one before it are dropped.
Ring(verts) ==
    LET f[n \in 0..Len(verts)] ==
            IF n = 0 THEN <<>>
            ELSE IF f[n - 1] # <<>> /\ Last(f[n - 1]) = verts[n] THEN f[n - 1]
            ELSE Append(f[n - 1], verts[n])
        r == f[Len(verts)]
    IN IF Len(r) > 1 /\ r[1] = Last(r) THEN SubSeq(r, 1, Len(r) - 1) ELSE r

Rotations(r) == {[k \in 1..Len(r) |-> r[((k + d - 1) % Len(r)) + 1]] : d \in 0..(Len(r) - 1)}

\* The sub-paths of a patch, each as the set of its rotations.
RingsOf(patch) == {Rotations(Ring(SubPathAt(patch, a))) : a \in SubPathStarts(patch)}

\* Two patches are the same polygon up to rotation of the vertex order of each sub-path.
SamePolygon(p, q) ==
    /\ p.z = q.z
    /\ Cardinality(SubPathStarts(p)) = Cardinality(SubPathStarts(q))
    /\ RingsOf(p) = RingsOf(q)

\* C8: every extraction from a grid emits the polygons that the extraction with one
\* fixed iteration order emits, up to rotation of each polygon's vertex order; so any two
\* extractions from the same grid emit the same polygon set, whatever the order of the
\* squares, of the popped open starts and of the emitted regions.
C8_OrderIndependent ==
    pc = "done" =>
        /\ ReferenceRun.ok
        /\ Cardinality(emitted) = Cardinality(ReferenceRun.emitted)
        /\ \A p \in emitted : \E q \in ReferenceRun.emitted : SamePolygon(p, q)
        /\ \A q \in ReferenceRun.emitted : \E p \in emitted : SamePolygon(p, q)

\* Coordinates that do not increase strictly along the rows or along the columns.
Malformed ==
    \/ \E j \in 1..(Len(xCoords) - 1) : xCoords[j] >= xCoords[j + 1]
    \/ \E i \in 1..(Len(yCoords) - 1) : yCoords[i] >= yCoords[i + 1]

\* C10: a grid with malformed coordinates is rejected at entry: no square with a boundary
\* is ever extracted from it and no later step of the extraction is reached.
C10_MalformedRejected ==
    Malformed =>
        /\ boundaryCoords = {}
        /\ DOMAIN paths = {}
        /\ pc \notin {"stitch", "close", "walk", "emit", "done", "hung"}

\* The levels never decrease along the list.
SortedLevels == \A n \in 1..(Len(levels) - 1) : levels[n] <= levels[n + 1]

\* 1 plus the number of levels strictly below the value.
BucketOf(v) == 1 + Cardinality({n \in 1..Len(levels) : levels[n] < v})

\* C16 as stated: for every list of levels, discretization maps every Z value to 1 plus
\* the number of levels strictly below it, so the result lies in 1..len(levels)+1 and
\* does not decrease when the value grows.
C16_BucketIndex ==
    [][pc = "levels" =>
        \A i, j \in 1..2 :
            /\ zValues'[i][j] = BucketOf(zValues[i][j])
            /\ zValues'[i][j] \in 1..(Len(levels) + 1)
            /\ \A i2, j2 \in 1..2 :
                zValues[i][j] <= zValues[i2][j2] => zValues'[i][j] <= zValues'[i2][j2]]_vars

\* C16 amended: the same for every list of levels that never decreases.
C16_BucketIndexSortedLevels ==
    [][(pc = "levels" /\ SortedLevels) =>
        \A i, j \in 1..2 :
            /\ zValues'[i][j] = BucketOf(zValues[i][j])
            /\ zValues'[i][j] \in 1..(Len(levels) + 1)
            /\ \A i2, j2 \in 1..2 :
                zValues[i][j] <= zValues[i2][j2] => zValues'[i][j] <= zValues'[i2][j2]]_vars

\* Discretization with two sorted levels has put samples in the first and the last bucket.
C16_Witness ==
    /\ pc = "start" /\ Len(levels) = 2 /\ SortedLevels
    /\ \E i, j, i2, j2 \in 1..2 : zValues[i][j] = 1 /\ zValues[i2][j2] = Len(levels) + 1

\* The squares of the grid, each named by its corner with the smallest indices.
Cells == (1..(numberOfRows - 1)) \X (1..(numberOfCols - 1))

\* Number of sides of the square whose two corner values differ.
UnequalSides(cell) == Cardinality({n \in 1..4 : SquareUnequal(cell[1], cell[2])[n]})

\* The squares have been extracted from the (discretized) values.
SquaresExtracted == pc \notin {"levels", "start"}

\* C19 as stated: every square has 0, 2 or 4 sides whose corner values differ, never 1
\* and never 3.
C19_EvenUnequalSides ==
    SquaresExtracted => \A cell \in Cells : UnequalSides(cell) \in {0, 2, 4}

\* C19 amended: every square has 0, 2, 3 or 4 sides whose corner values differ, never
\* exactly 1; 3 happens only where three different values meet, and the square then has
\* three boundary points.
C19_NeverOneUnequalSide ==
    SquaresExtracted =>
        \A cell \in Cells :
            /\ UnequalSides(cell) \in {0, 2, 3, 4}
            /\ Len(SquareTuple(cell[1], cell[2])) = UnequalSides(cell)
            /\ UnequalSides(cell) = 3 =>
                Cardinality({zValues[cell[1] + di][cell[2] + dj] : di, dj \in {0, 1}}) = 3

C19_Witness ==
    /\ pc = "done"
    /\ \E cell \in Cells : UnequalSides(cell) = 3
    /\ \E sq \in InitialBoundaryCoords : Len(sq) = 3

\* The centre of a square.
CentreOf(cell) == <<xCoords[cell[2]] + halfDeltaX, yCoords[cell[1]] + halfDeltaY>>

\* C20: whenever a square has more than two boundary points, the vertex put between the
\* entry and the exit point of each of its segments is the centre of the square.
C20_MiddleIsCentre ==
    pc \in {"close", "walk"} =>
        \A cell \in Cells :
            LET sq == SquareTuple(cell[1], cell[2])
            IN Len(sq) > 2 =>
                /\ MiddleOfSquare(sq) = <<CentreOf(cell)>>
                /\ \A seg \in SquareSegments(sq) :
                    \E s \in DOMAIN paths : \E n \in 1..(Len(paths[s]) - 2) :
                        /\ paths[s][n] = seg[1]
                        /\ paths[s][n + 1] = CentreOf(cell)
                        /\ paths[s][n + 2] = seg[2]

\* Every 2x2 block of the grid is checkerboarded: all four sides of every square have
\* unequal corners.
AllCheckerboard == \A cell \in Cells : UnequalSides(cell) = 4

\* C11: degenerate grids never end in an error.  A grid of one category gives an empty
\* boundary set; a grid of one category or with every 2x2 block checkerboarded never
\* reaches a failed lookup or an endless walk, and every step before the end of main
\* (stitching, closing, hierarchy, emission) has a next step.
C11_DegenerateGridsNoError ==
    /\ (Uniform /\ pc # "start") => boundaryCoords = {}
    /\ (Uniform \/ AllCheckerboard) =>
        /\ pc \notin {"failed", "hung"}
        /\ pc # "done" => ENABLED NextLevels

C11_Witness ==
    /\ AllCheckerboard /\ numberOfCols = 3
    /\ pc = "done"
    /\ emitted # {}

\* The vertices a segment of a square puts into a path: j, k or j, middle, k.
LinkOf(sq, seg) == <<seg[1]>> \o MiddleOfSquare(sq) \o <<seg[2]>>

\* The steps (pairs of consecutive vertices) of a vertex list.
StepsOf(verts) == {<<verts[n], verts[n + 1]>> : n \in 1..(Len(verts) - 1)}

\* The steps produced by the squares.  No two segments produce the same step: a step
\* holds two side midpoints of one square or a side midpoint and the middle of its square.
OriginalSteps ==
    UNION {UNION {StepsOf(LinkOf(sq, seg)) : seg \in SquareSegments(sq)} :
           sq \in InitialBoundaryCoords}

\* The places <<start, index>> of the final paths where the vertex list begins.
PlacesOf(link) ==
    UNION {{<<s, n>> : n \in {n \in 1..(Len(paths[s]) - Len(link) + 1) :
                                SubSeq(paths[s], n, n + Len(link) - 1) = link}} :
           s \in DOMAIN paths}

\* The steps of the final paths, each with its place.
PathSteps ==
    UNION {{<<s, n>> : n \in 1..(Len(paths[s]) - 1)} : s \in DOMAIN paths}

\* The paths are the ones the stitching loop has left and closing has not started to
\* replace them.
PathsAsStitched == pc \in {"close", "walk"}

\* C12: after all squares are stitched every directed segment (j, k) of every square is
\* in exactly one final path, once, as j, k or j, middle, k; no final path has a step that
\* no square produced; and every point is an endpoint of as many steps of the final
\* paths as of steps produced by the squares.
C12_SegmentsConserved ==
    PathsAsStitched =>
        /\ \A sq \in InitialBoundaryCoords : \A seg \in SquareSegments(sq) :
            Cardinality(PlacesOf(LinkOf(sq, seg))) = 1
        /\ \A place \in PathSteps :
            <<paths[place[1]][place[2]], paths[place[1]][place[2] + 1]>> \in OriginalSteps
        /\ \A step \in OriginalSteps :
            /\ Cardinality({place \in PathSteps : paths[place[1]][place[2]] = step[1]})
                = Cardinality({other \in OriginalSteps : other[1] = step[1]})
            /\ Cardinality({place \in PathSteps : paths[place[1]][place[2] + 1] = step[2]})
                = Cardinality({other \in OriginalSteps : other[2] = step[2]})

\* Stitching has ended with a closed loop and with a path joined from two others.
C12_Witness ==
    /\ pc = "close"
    /\ \E s \in DOMAIN startsToEnds : startsToEnds[s] = s
    /\ \E s \in DOMAIN paths : Len(paths[s]) >= 4

\* The dicts the stitching loop leaves when it iterates every set in the fixed order.
ReferenceMaps ==
    ReferenceStitch(Maps(EmptyDict, EmptyDict, EmptyDict, TRUE), InitialBoundaryCoords)

\* The open paths of a pair of dicts, as vertex lists.
OpenPathsOf(pathsDict, starts) == {pathsDict[s] : s \in {s \in DOMAIN starts : starts[s] # s}}

\* The closed loops of a pair of dicts, each as the set of the rotations of its ring.
LoopsOf(pathsDict, starts) ==
    {Rotations(Ring(pathsDict[s])) : s \in {s \in DOMAIN starts : starts[s] = s}}

\* C13: the order in which the squares, and the segments inside each of the four groups,
\* are processed does not change the final paths: every order ends with the open paths of
\* the fixed order, vertex for vertex, and with its closed loops up to the choice of the
\* start point of each loop.
C13_StitchOrderIrrelevant ==
    PathsAsStitched =>
        /\ ReferenceMaps.ok
        /\ DOMAIN paths = DOMAIN startsToEnds
        /\ Cardinality(DOMAIN paths) = Cardinality(DOMAIN ReferenceMaps.paths)
        /\ OpenPathsOf(paths, startsToEnds)
            = OpenPathsOf(ReferenceMaps.paths, ReferenceMaps.startsToEnds)
        /\ LoopsOf(paths, startsToEnds)
            = LoopsOf(ReferenceMaps.paths, ReferenceMaps.startsToEnds)

\* Stitching has ended on a grid with several squares, with a closed loop, and with
\* another start of the loop than the fixed order gives it.
C13_Witness ==
    /\ pc = "close"
    /\ Cardinality(InitialBoundaryCoords) >= 4
    /\ \E s \in DOMAIN startsToEnds :
        /\ startsToEnds[s] = s
        /\ s \notin DOMAIN ReferenceMaps.startsToEnds

\* The segments of a square in the order the four loops of lines 205-252 take them, each
\* with the group it was put in.
TaggedSegments(oFill, oStart, oEnd, oNew) ==
    [n \in 1..Len(oFill) |-> <<"fill", oFill[n]>>]
    \o [n \in 1..Len(oStart) |-> <<"start", oStart[n]>>]
    \o [n \in 1..Len(oEnd) |-> <<"end", oEnd[n]>>]
    \o [n \in 1..Len(oNew) |-> <<"new", oNew[n]>>]

\* The body of the loop of the group, for one segment.
ApplyTagged(m, tagged, mid) ==
    IF tagged[1] = "fill" THEN FillGap(m, tagged[2], mid)
    ELSE IF tagged[1] = "start" THEN ExtendStart(m, tagged[2], mid)
    ELSE IF tagged[1] = "end" THEN ExtendEnd(m, tagged[2], mid)
    ELSE NewAlone(m, tagged[2], mid)

\* The body of the loop looks up (reads or deletes) a start or an end the dicts do not hold.
Dangling(m, tagged) ==
    LET j == tagged[2][1]
        k == tagged[2][2]
    IN IF tagged[1] = "fill"
       THEN \/ k \notin DOMAIN m.startsToEnds
            \/ j \notin DOMAIN m.endsToStarts
            \/ m.endsToStarts[j] \notin DOMAIN m.paths
            \/ m.startsToEnds[k] # j /\ k \notin DOMAIN m.paths
       ELSE IF tagged[1] = "start"
       THEN k \notin DOMAIN m.startsToEnds \/ k \notin DOMAIN m.paths
       ELSE IF tagged[1] = "end"
       THEN j \notin DOMAIN m.endsToStarts \/ m.endsToStarts[j] \notin DOMAIN m.paths
       ELSE FALSE

\* Some segment of the square, taken in the order given, has a dangling reference.
DanglingReference(m0, sq, oFill, oStart, oEnd, oNew) ==
    LET tagged == TaggedSegments(oFill, oStart, oEnd, oNew)
        before[n \in 0..Len(tagged)] ==
            IF n = 0 THEN m0 ELSE ApplyTagged(before[n - 1], tagged[n], MiddleOfSquare(sq))
    IN \E n \in 1..Len(tagged) : Dangling(before[n - 1], tagged[n])

\* C14: a stitching step with a dangling reference (a start or end that is not in the
\* dicts) makes the extraction fail at that step: a square is only ever recorded as
\* stitched by an application of its segments without dangling reference, a failure
\* leaves no polygon emitted, and nothing follows a failure.
C14_FailFast ==
    [][/\ pc # "failed"
       /\ pc' = "failed" => emitted' = {}
       /\ (pc = "stitch" /\ boundaryCoords' # boundaryCoords) =>
            \E sq \in boundaryCoords \ boundaryCoords' :
                \E oFill \in Orders(FillGaps(CurrentMaps, sq)),
                   oStart \in Orders(ExtendStarts(CurrentMaps, sq)),
                   oEnd \in Orders(ExtendEnds(CurrentMaps, sq)),
                   oNew \in Orders(NewAlones(CurrentMaps, sq)) :
                    /\ ~DanglingReference(CurrentMaps, sq, oFill, oStart, oEnd, oNew)
                    /\ paths' = ApplySquare(CurrentMaps, sq, oFill, oStart, oEnd, oNew).paths
                    /\ startsToEnds'
                        = ApplySquare(CurrentMaps, sq, oFill, oStart, oEnd, oNew).startsToEnds
                    /\ endsToStarts'
                        = ApplySquare(CurrentMaps, sq, oFill, oStart, oEnd, oNew).endsToStarts]_vars

\* The stitching loop has failed on a square, with other squares already stitched.
C14_Witness ==
    /\ pc = "failed"
    /\ boundaryCoords # {}
    /\ DOMAIN paths # {}

\* The point is inside the outer path of the patch and outside every hole sub-path.
InsidePolygon(patch, pt) ==
    /\ WindingNumber(SubPathAt(patch, 1), pt) # 0
    /\ \A a \in SubPathStarts(patch) \ {1} : WindingNumber(SubPathAt(patch, a), pt) = 0

\* The samples that lie inside the polygon of the patch.
SamplesInside(patch) ==
    {a \in Samples : \E pt \in PointsNearSample(a) : InsidePolygon(patch, pt)}

\* C15: the category attached to every emitted polygon is the category of the samples
\* that lie inside the polygon (outside its holes): there is such a sample, so the sample
\* the value was read from is one of the region the polygon encloses, and every such
\* sample has the category of the polygon.
C15_TagIsCategoryInside ==
    pc = "done" =>
        \A patch \in emitted :
            /\ SamplesInside(patch) # {}
            /\ \A a \in SamplesInside(patch) : zValues[a[1]][a[2]] = patch.z

\* The vertex list is a contiguous part of the other, at its start, or at its end.
IsPartOf(part, whole) ==
    \E n \in 1..(Len(whole) - Len(part) + 1) : SubSeq(whole, n, n + Len(part) - 1) = part

IsPrefixOf(part, whole) ==
    Len(part) <= Len(whole) /\ SubSeq(whole, 1, Len(part)) = part

IsSuffixOf(part, whole) ==
    Len(part) <= Len(whole) /\ SubSeq(whole, Len(whole) - Len(part) + 1, Len(whole)) = part

\* What the step that stitches the square has done with its segment (j, k), by the case
\* the dicts before the step put the segment in.
SegmentCaseApplied(sq, seg) ==
    LET j == seg[1]
        k == seg[2]
        mid == MiddleOfSquare(sq)
        jIsEnd == j \in DOMAIN endsToStarts
        kIsStart == k \in DOMAIN startsToEnds
    IN IF jIsEnd /\ kIsStart
       THEN IF startsToEnds[k] # j
            THEN \* the path ending at j and the path starting at k are one path now
                 /\ \E s \in DOMAIN paths' :
                        IsPartOf(paths[endsToStarts[j]] \o mid \o paths[k], paths'[s])
                 /\ \A s \in DOMAIN paths' : ~IsPrefixOf(paths[k], paths'[s])
            ELSE \* the path from k to j is closed: its start is its end
                 /\ k \in DOMAIN paths'
                 /\ paths'[k] = paths[k] \o mid \o <<k>>
                 /\ startsToEnds'[k] = k
       ELSE IF jIsEnd
       THEN \* the end of the path ending at j is k now
            \E s \in DOMAIN paths' :
                /\ IsSuffixOf(paths[endsToStarts[j]] \o mid \o <<k>>, paths'[s])
                /\ startsToEnds'[s] = k
                /\ endsToStarts'[k] = s
       ELSE IF kIsStart
       THEN \* the start of the path starting at k is j now
            /\ j \in DOMAIN paths'
            /\ IsPrefixOf(<<j>> \o mid \o paths[k], paths'[j])
            /\ endsToStarts'[startsToEnds'[j]] = j
       ELSE \* a new path of the one segment
            /\ j \in DOMAIN paths'
            /\ paths'[j] = LinkOf(sq, seg)
            /\ startsToEnds'[j] = k
            /\ endsToStarts'[k] = j

\* C17: every step of the stitching loop applies to each segment (j, k) of its square the
\* case fixed by whether j is the end of a path and k the start of one before the step:
\* both, the two paths are spliced into one (or the path from k to j is closed); only j,
\* the end of that path becomes k; only k, the start of that path becomes j; neither, a
\* new path of the one segment is created.
C17_CaseBySegmentEnds ==
    [][(pc = "stitch" /\ boundaryCoords' # boundaryCoords) =>
        \A sq \in boundaryCoords \ boundaryCoords' : \A seg \in SquareSegments(sq) :
            SegmentCaseApplied(sq, seg)]_vars

\* Each of the four cases has been applied to a segment of a square with a middle.
C17_Witness ==
    /\ pc = "stitch" /\ boundaryCoords = {}
    /\ \E s \in DOMAIN startsToEnds : startsToEnds[s] = s
    /\ \E s \in DOMAIN paths : Len(paths[s]) > 6
    /\ Cardinality(InitialBoundaryCoords) >= 4

\* C18: after each square the three dicts agree: paths and startsToEnds have the same
\* keys; paths[s] begins with s and ends with startsToEnds[s]; for an open path
\* endsToStarts[startsToEnds[s]] = s; every key e of endsToStarts has
\* startsToEnds[endsToStarts[e]] = e; a closed path is recorded as startsToEnds[s] = s
\* only, with no entry endsToStarts[s] = s.
C18_MapsConsistent ==
    (pc = "stitch" \/ PathsAsStitched) =>
        /\ DOMAIN paths = DOMAIN startsToEnds
        /\ \A s \in DOMAIN paths :
            /\ paths[s][1] = s
            /\ Last(paths[s]) = startsToEnds[s]
            /\ startsToEnds[s] # s =>
                /\ startsToEnds[s] \in DOMAIN endsToStarts
                /\ endsToStarts[startsToEnds[s]] = s
            /\ startsToEnds[s] = s => (s \notin DOMAIN endsToStarts \/ endsToStarts[s] # s)
        /\ \A e \in DOMAIN endsToStarts :
            /\ endsToStarts[e] \in DOMAIN startsToEnds
            /\ startsToEnds[endsToStarts[e]] = e

\* A step of the stitching loop has left closed loops beside open paths.
C18_Witness ==
    /\ pc = "stitch"
    /\ \E s \in DOMAIN startsToEnds : startsToEnds[s] = s
    /\ \E s \in DOMAIN startsToEnds : startsToEnds[s] # s

\* The samples at the two ends of the side of a square whose midpoint is p.
SideEnds(p) ==
    {a \in Samples :
        \/ xCoords[a[2]] = p[1] /\ Abs(yCoords[a[1]] - p[2]) = halfDeltaY
        \/ yCoords[a[1]] = p[2] /\ Abs(xCoords[a[2]] - p[1]) = halfDeltaX}

\* p is one of the boundary points of the square.
IsBoundaryPoint(cell, p) ==
    \E n \in 1..Len(SquareTuple(cell[1], cell[2])) : SquareTuple(cell[1], cell[2])[n] = p

\* C30: a side midpoint is a boundary point of a square exactly when the two samples at
\* the ends of that side have different values; a midpoint shared by two adjacent
\* squares is selected by both or by neither; the rightmost column of rowsNotEqual and
\* the bottom row of columnsNotEqual are all False.
C30_MidpointsMatchSamples ==
    SquaresExtracted =>
        /\ \A cell \in Cells : \A n \in 1..4 :
            LET p == SquareMidpoints(cell[1], cell[2])[n]
            IN IsBoundaryPoint(cell, p) <=>
                \E a, b \in SideEnds(p) : zValues[a[1]][a[2]] # zValues[b[1]][b[2]]
        /\ \A c1, c2 \in Cells : \A n, m \in 1..4 :
            LET p == SquareMidpoints(c1[1], c1[2])[n]
            IN SquareMidpoints(c2[1], c2[2])[m] = p =>
                (IsBoundaryPoint(c1, p) <=> IsBoundaryPoint(c2, p))
        /\ \A i \in 1..numberOfRows : ~rowsNotEqual(i, numberOfCols)
        /\ \A j \in 1..numberOfCols : ~columnsNotEqual(numberOfRows, j)
        /\ boundaryCoords \subseteq {SquareTuple(cell[1], cell[2]) : cell \in Cells}

\* Two squares share a selected midpoint, and one of them has a side that is not selected.
C30_Witness ==
    /\ pc = "stitch"
    /\ \E c1, c2 \in Cells : \E n, m \in 1..4 :
        /\ c1 # c2
        /\ SquareMidpoints(c1[1], c1[2])[n] = SquareMidpoints(c2[1], c2[2])[m]
        /\ IsBoundaryPoint(c1, SquareMidpoints(c1[1], c1[2])[n])
        /\ Len(SquareTuple(c1[1], c1[2])) = 2
    /\ \E i \in 1..numberOfRows : zValues[i][numberOfCols] # zValues[i][1]

\* C29: during stitching no lookup or deletion addresses a missing key: whichever
\* square is taken next and in whatever order its segments are applied, the groups the
\* segments were put in before any of them was applied still fit when each segment is
\* applied, so startsToEnds[k], endsToStarts[j] and the paths entries they name exist,
\* and the stitching loop never fails.
C29_NoMissingKey ==
    /\ ~(pc = "failed" /\ boundaryCoords # {})
    /\ pc = "stitch" =>
        \A sq \in boundaryCoords :
            \A oFill \in Orders(FillGaps(CurrentMaps, sq)),
               oStart \in Orders(ExtendStarts(CurrentMaps, sq)),
               oEnd \in Orders(ExtendEnds(CurrentMaps, sq)),
               oNew \in Orders(NewAlones(CurrentMaps, sq)) :
                /\ ~DanglingReference(CurrentMaps, sq, oFill, oStart, oEnd, oNew)
                /\ ApplySquare(CurrentMaps, sq, oFill, oStart, oEnd, oNew).ok

\* After some squares were stitched, the next one has segments that join paths and
\* segments that extend one.
C29_Witness ==
    /\ pc = "stitch"
    /\ \E sq \in boundaryCoords :
        /\ FillGaps(CurrentMaps, sq) # {}
        /\ ExtendStarts(CurrentMaps, sq) \cup ExtendEnds(CurrentMaps, sq) # {}

\* The point lies on the outer frame of the grid.
OnFrame(p) == p[1] = xMin \/ p[1] = xMax \/ p[2] = yMin \/ p[2] = yMax

\* Every square has been stitched.
AllSquaresStitched == (pc = "stitch" /\ boundaryCoords = {}) \/ StitchingOver

\* C27: after all squares are stitched, every path with start # end has both its start
\* and its end on the outer frame of the grid; no open path starts or ends at an
\* interior side midpoint.
C27_OpenPathsEndOnFrame ==
    AllSquaresStitched =>
        \A s \in DOMAIN startsToEnds :
            startsToEnds[s] # s => OnFrame(s) /\ OnFrame(startsToEnds[s])

\* An open path that runs through interior midpoints from one frame edge to another,
\* beside a closed loop.
C27_Witness ==
    /\ pc = "close"
    /\ \E s \in DOMAIN startsToEnds :
        /\ startsToEnds[s] # s
        /\ s[1] # startsToEnds[s][1] /\ s[2] # startsToEnds[s][2]
        /\ \E n \in 1..Len(paths[s]) : ~OnFrame(paths[s][n])
    /\ \E s \in DOMAIN startsToEnds : startsToEnds[s] = s

\* The hierarchy has been computed and no patch has been made yet, so paths still holds
\* the vertex lists calc_area_hierarchy was given.
HierarchyComputed == pc = "emit" /\ toEmit = 1

\* The path that starts at j lies inside the path that starts at i.
ContainedIn(j, i) == ContainsPath(paths[i], paths[j])

\* C21: calc_area_hierarchy returns direct children only: for every path i, remove[i] is
\* exactly the set of the paths j contained in i for which no other path k contained in
\* i contains j.
C21_DirectChildrenOnly ==
    HierarchyComputed =>
        LET starts == KeySet(pathsStartsToRegionZValues)
        IN /\ DOMAIN removeInternalPaths = starts
           /\ \A i \in starts :
                removeInternalPaths[i] =
                    {j \in starts :
                        /\ ContainedIn(j, i)
                        /\ ~\E k \in starts \ {j} : ContainedIn(k, i) /\ ContainedIn(j, k)}

----------------------------------------------------------------------------
\* calc_area_hierarchy and the loop that makes the patches, on the paths of grids large
\* enough for a region inside a region inside a region: 5 rows of 6 samples, the last
\* column of category 1, the rest of the outer ring of category 0, and each row of the
\* inner 3x3 samples one of four patterns.

InnerRows == {<<1, 1, 1>>, <<1, 0, 1>>, <<0, 1, 0>>, <<0, 0, 0>>}

HierarchyGrids ==
    {[i \in 1..5 |-> [j \in 1..6 |->
        IF j = 6 THEN 1
        ELSE IF i \in {1, 5} \/ j \in {1, 5} THEN 0
        ELSE inner[i - 1][j - 1]]] : inner \in [1..3 -> InnerRows]}

\* Lines 333-334 after a stitching that left the dicts m: close_paths in the fixed order.
ReferenceClosed(m) ==
    LET openPathStarts == {i \in DOMAIN m.startsToEnds : m.startsToEnds[i] # i}
        r == CloseSameEdge(m.paths, ChosenOrder(SameEdgeClosable(m.paths, openPathStarts)))
    IN ReferenceWalk(m.paths, openPathStarts \ r.closedStartPoints,
                     [newPaths |-> r.newPaths, pathStartToZValue |-> r.pathStartToZValue,
                      ok |-> r.ok])

\* The state of main when close_paths has returned (line 334): the paths as stitched, the
\* closed loops found counter-clockwise in any order (line 326 iterates a set), and the
\* paths close_paths closed.
InitHierarchy ==
    /\ levels = <<>>
    /\ zValues \in HierarchyGrids
    /\ xCoords = Ascending(6)
    /\ yCoords = Ascending(5)
    /\ pc = "walk"
    /\ boundaryCoords = {}
    /\ \E m \in {ReferenceMaps} : \E closed \in {ReferenceClosed(m)} :
        /\ m.ok
        /\ closed.ok
        /\ \A i \in DOMAIN m.startsToEnds :
            m.startsToEnds[i] = i => TestClockwise(m.paths[i]).ok
        /\ paths = m.paths
        /\ startsToEnds = m.startsToEnds
        /\ endsToStarts = m.endsToStarts
        /\ \E order \in Orders({i \in DOMAIN m.startsToEnds :
                                    m.startsToEnds[i] = i /\ TestClockwise(m.paths[i]).CCW}) :
                pathsStartsToRegionZValues =
                    [n \in 1..Len(order) |-> <<order[n], TestClockwise(m.paths[order[n]]).z>>]
        /\ newPaths = closed.newPaths
        /\ pathStartToZValue = closed.pathStartToZValue
    /\ openStartingPoints = {}
    /\ removeInternalPaths = EmptyDict
    /\ toEmit = 0
    /\ emitted = {}

NextHierarchy ==
    \/ ComputeHierarchy
    \/ EmitRegion

SpecHierarchy == InitHierarchy /\ [][NextHierarchy]_vars

\* A path inside a path inside a path: the innermost is a direct child of the middle
\* one and not of the outermost.
C21_Witness ==
    /\ HierarchyComputed
    /\ \E a, b, c \in KeySet(pathsStartsToRegionZValues) :
        /\ ContainedIn(b, a) /\ ContainedIn(c, b) /\ ContainedIn(c, a)
        /\ c \in removeInternalPaths[b]
        /\ c \notin removeInternalPaths[a]
        /\ b \in removeInternalPaths[a]

\* The vertex lists of the paths in the order given, each reversed, one after the other.
ReversedInTurn(pathsDict, holes) ==
    LET f[n \in 0..Len(holes)] ==
            IF n = 0 THEN <<>> ELSE f[n - 1] \o Reverse(pathsDict[holes[n]])
    IN f[Len(holes)]

\* C22: making the patch of a region leaves every stored path unchanged, and the patch
\* made for region i is the closed vertex list of i followed, for each direct child j
\* in some order, by the reverse of the closed vertex list of j.
C22_EmitLeavesPathsUnchanged ==
    [][pc = "emit" =>
        /\ paths' = paths
        /\ \E patch \in emitted' :
            /\ patch.start = pathsStartsToRegionZValues[toEmit][1]
            /\ \E holes \in Orders(removeInternalPaths[patch.start]) :
                patch.verts = paths[patch.start] \o ReversedInTurn(paths, holes)]_vars

----------------------------------------------------------------------------
\* The closing of the open paths, the hierarchy and the patches on grids with a frame long
\* enough for several paths on one edge: 3 rows of 5 samples, the top row of category 0.

BottomRows == {r \in [1..5 -> {0, 1}] : r[1] = 0}

MiddleRows ==
    {<<0, 0, 0, 0, 0>>, <<0, 1, 1, 1, 0>>, <<0, 1, 0, 1, 0>>, <<0, 0, 1, 0, 0>>,
     <<1, 1, 1, 1, 1>>, <<0, 1, 1, 0, 0>>, <<1, 0, 0, 0, 1>>, <<0, 0, 0, 1, 1>>}

ClosingGrids == {<<bottom, middle, <<0, 0, 0, 0, 0>> >> : bottom \in BottomRows, middle \in MiddleRows}

\* The state of main when the loop of line 171 has ended, after a stitching in the fixed
\* order.
InitClosing ==
    /\ levels = <<>>
    /\ zValues \in ClosingGrids
    /\ xCoords = Ascending(5)
    /\ yCoords = Ascending(3)
    /\ pc = "stitch"
    /\ boundaryCoords = {}
    /\ \E m \in {ReferenceMaps} :
        /\ m.ok
        /\ paths = m.paths
        /\ startsToEnds = m.startsToEnds
        /\ endsToStarts = m.endsToStarts
    /\ pathsStartsToRegionZValues = <<>>
    /\ openStartingPoints = {}
    /\ newPaths = EmptyDict
    /\ pathStartToZValue = <<>>
    /\ removeInternalPaths = EmptyDict
    /\ toEmit = 0
    /\ emitted = {}

NextClosing ==
    \/ TestClosedPaths
    \/ CloseSameEdgePaths
    \/ WalkOpenPath
    \/ ComputeHierarchy
    \/ EmitRegion

SpecClosing == InitClosing /\ [][NextClosing]_vars

\* The point is a corner of the frame.
IsCorner(p) == p[1] \in {xMin, xMax} /\ p[2] \in {yMin, yMax}

\* The samples on the interior side of the closed path and next to it: inside the path or
\* on it, and on a segment of the path or at an end of a side whose midpoint is a vertex
\* of the path.
BorderingSamples(verts) ==
    {a \in Samples :
        /\ \E pt \in PointsNearSample(a) : WindingNumber(verts, pt) # 0
        /\ \/ OnPath(verts, <<xCoords[a[2]], yCoords[a[1]]>>)
           \/ \E n \in 1..Len(verts) : a \in SideEnds(verts[n])}

\* C23: the frame walk absorbs every other still-open path whose start it passes on the
\* frame, a start on the first side midpoint after a corner included, so the closed path
\* it returns continues with the path of every such start, and the samples next to it on
\* its interior side are all of one region.
C23_WalkAbsorbsPassedStarts ==
    [][pc = "walk" =>
        \A c \in (DOMAIN newPaths') \ (DOMAIN newPaths) :
            /\ \A n \in 1..(Len(newPaths'[c]) - 1) :
                (IsCorner(newPaths'[c][n]) /\ newPaths'[c][n + 1] \in openStartingPoints \ {c}) =>
                    /\ newPaths'[c][n + 1] \notin openStartingPoints'
                    /\ IsPartOf(<<newPaths'[c][n]>> \o paths[newPaths'[c][n + 1]], newPaths'[c])
            /\ \A a, b \in BorderingSamples(newPaths'[c]) :
                zValues[a[1]][a[2]] = zValues[b[1]][b[2]]]_vars

\* Both points lie on one edge of the frame.
SameFrameEdge(p, q) ==
    \/ p[1] = q[1] /\ p[1] \in {xMin, xMax}
    \/ p[2] = q[2] /\ p[2] \in {yMin, yMax}

\* s lies on the frame edge of p and q, strictly between them.
BetweenOnEdge(s, p, q) ==
    /\ SameFrameEdge(s, p) /\ SameFrameEdge(s, q) /\ SameFrameEdge(p, q)
    /\ \/ p[1] = q[1] /\ s[1] = p[1] /\ (s[2] - p[2]) * (s[2] - q[2]) < 0
       \/ p[2] = q[2] /\ s[2] = p[2] /\ (s[1] - p[1]) * (s[1] - q[1]) < 0

\* C24: the first loop of close_paths (append the start, no frame walk) accepts an open
\* path only if its start and its end lie on the same frame edge and no other open
\* path starts on the frame between its end and its start; a path between two opposite
\* frame edges is left for the frame walk.
C24_DirectClosureSameEdgeOnly ==
    [][pc = "close" =>
        \A i \in DOMAIN newPaths' :
            /\ SameFrameEdge(i, Last(paths[i]))
            /\ \A s \in openStartingPoints : ~BetweenOnEdge(s, i, Last(paths[i]))]_vars

\* The open paths whose start and end lie on the same frame edge and whose closed vertex
\* list test_clockwise does not find counter-clockwise.
ClockwiseSameEdge ==
    {i \in DOMAIN startsToEnds :
        /\ startsToEnds[i] # i
        /\ SameFrameEdge(i, startsToEnds[i])
        /\ ~TestClockwise(Append(paths[i], i)).CCW}

PathsTested ==
    {paths[i] : i \in {i \in DOMAIN startsToEnds : startsToEnds[i] = i}}
    \cup {Append(paths[i], i) :
            i \in {i \in DOMAIN startsToEnds :
                        /\ startsToEnds[i] # i
                        /\ (i[1] = startsToEnds[i][1] \/ i[2] = startsToEnds[i][2])}}

\* The stitching is over and the paths are still as it left them.
TestsDue == (pc = "stitch" /\ boundaryCoords = {}) \/ pc = "close"

PathsTestedOnOneEdge ==
    {paths[i] : i \in {i \in DOMAIN startsToEnds : startsToEnds[i] = i}}
    \cup {Append(paths[i], i) :
            i \in {i \in DOMAIN startsToEnds :
                        startsToEnds[i] # i /\ SameFrameEdge(i, startsToEnds[i])}}

SpecFair == Spec /\ WF_vars(Next)

\* No frame walk runs without end and no step of close_paths raises.
NoEndlessWalk ==
    [][(pc = "close" \/ pc = "walk") => (pc' # "hung" /\ pc' # "failed")]_vars

\* C28: close_paths terminates: each frame walk reaches its own starting point after
\* finitely many steps, whatever open paths it absorbs on the way, and once the closing
\* has begun the set of open starting points is eventually empty.
C28_ClosePathsTerminates ==
    /\ NoEndlessWalk
    /\ (pc = "close") ~> (pc = "walk" /\ openStartingPoints = {})

\* The closing is over with no open start left, and a frame walk went around a corner of
\* the frame and absorbed the open path of another start on its way.
C28_Witness ==
    /\ pc = "walk"
    /\ openStartingPoints = {}
    /\ \E i \in DOMAIN newPaths :
        /\ \E n \in 1..Len(newPaths[i]) : IsCorner(newPaths[i][n])
        /\ \E j \in (DOMAIN paths) \ (DOMAIN newPaths) :
            /\ startsToEnds[j] # j
            /\ IsPartOf(paths[j], newPaths[i])

====
